---- MODULE Spec2Model ----
(***************************************************************************)
(* Flowise MCP server: the tool handlers (handlers module), the transport  *)
(* client (flowise-api.ts) and the tool registration table, as a state     *)
(* machine.  In Spec one tool call or one direct transport request is in   *)
(* flight at a time; its downstream promise settles, and the handler       *)
(* returns.  SpecEnv adds changes of the environment and of the            *)
(* configuration object after start-up; SpecConc runs several tool calls   *)
(* at once; SpecPair runs the single-file entry point (index.ts) beside    *)
(* the refactored one; SpecKeys runs two servers that differ in apiKey.    *)
(***************************************************************************)
EXTENDS Integers, Sequences, FiniteSets, TLC

VARIABLES env, configObj, config, pc, tool, params, impl, sdkArg, apiCall,
          fetchReq, sdkCalls, apiCalls, fetches, httpResponse, outcome, result,
          served, calls, pair

vars == <<env, configObj, config, pc, tool, params, impl, sdkArg, apiCall,
          fetchReq, sdkCalls, apiCalls, fetches, httpResponse, outcome, result,
          served, calls, pair>>

\* Number of successive calls one run of the process serves.
MaxCalls == 2

\* Number of tool calls that can be in flight at once.
MaxConcurrent == 2

-----------------------------------------------------------------------------
(* JavaScript values.  Every kind has its own field names, so that values   *)
(* of different kinds are comparable.                                       *)

Undefined == [k |-> "undefined"]
Null == [k |-> "null"]
Bool(b) == [k |-> "boolean", b |-> b]
Num(n) == [k |-> "number", n |-> n]
Str(s) == [k |-> "string", s |-> s]
Arr(e) == [k |-> "array", e |-> e]
\* An object is the sequence of its own enumerable <<key, value>> pairs, in
\* insertion order.
Obj(p) == [k |-> "object", p |-> p]
\* An instance of Error (error instanceof Error is true of these only).
Err(m) == [k |-> "Error", message |-> m]

\* obj.key: undefined when the object has no such property.
RECURSIVE GetPairs(_, _)
GetPairs(p, key) ==
  IF p = <<>> THEN Undefined
  ELSE IF Head(p)[1] = key THEN Head(p)[2]
  ELSE GetPairs(Tail(p), key)

Get(o, key) == GetPairs(o.p, key)

HasKey(o, key) == \E i \in 1..Len(o.p) : o.p[i][1] = key

\* obj[key] = v: an existing key keeps its position, a new key is appended.
Put(o, key, v) ==
  IF HasKey(o, key)
  THEN Obj([i \in 1..Len(o.p) |->
              IF o.p[i][1] = key THEN <<key, v>> ELSE o.p[i]])
  ELSE Obj(Append(o.p, <<key, v>>))

\* JavaScript truthiness (ToBoolean); objects and arrays are always truthy.
Truthy(v) ==
  CASE v.k = "undefined" -> FALSE
    [] v.k = "null" -> FALSE
    [] v.k = "boolean" -> v.b
    [] v.k = "number" -> v.n # 0
    [] v.k = "string" -> v.s # ""
    [] OTHER -> TRUE

\* a || b
OrElse(a, b) == IF Truthy(a) THEN a ELSE b

-----------------------------------------------------------------------------
(* Text helpers.                                                            *)

Digits == "0123456789"

RECURSIVE NatToStr(_)
NatToStr(n) ==
  IF n < 10 THEN SubSeq(Digits, n + 1, n + 1)
  ELSE NatToStr(n \div 10) \o SubSeq(Digits, (n % 10) + 1, (n % 10) + 1)

\* Number-to-string of an integer, as in a template literal or String(n).
IntToStr(n) == IF n < 0 THEN "-" \o NatToStr(0 - n) ELSE NatToStr(n)

\* Whether text s contains text t.
Contains(s, t) ==
  \E i \in 1..(Len(s) - Len(t) + 1) : SubSeq(s, i, i + Len(t) - 1) = t

StartsWith(s, t) == Len(s) >= Len(t) /\ SubSeq(s, 1, Len(t)) = t

\* QuoteJSONString: the characters that JSON escapes.
RECURSIVE EscapeChars(_)
EscapeChars(s) ==
  IF s = "" THEN ""
  ELSE LET c == Head(s)
           e == CASE c = "\"" -> "\\\""
                  [] c = "\\" -> "\\\\"
                  [] c = "\n" -> "\\n"
                  [] OTHER -> c
       IN e \o EscapeChars(Tail(s))

Quote(s) == "\"" \o EscapeChars(s) \o "\""

\* SerializeJSONProperty of JSON.stringify(value, null, gap): ind is the
\* current indentation, gap the indentation unit ("" for the compact form).
\* An undefined property is left out of an object and becomes null in an
\* array; an Error instance has no enumerable property.
RECURSIVE Ser(_, _, _), SerElems(_, _, _, _), SerProps(_, _, _, _)
Ser(v, ind, gap) ==
  LET inner == ind \o gap
      open(b) == IF gap = "" THEN b ELSE b \o "\n" \o inner
      close(b) == IF gap = "" THEN b ELSE "\n" \o ind \o b
  IN CASE v.k = "null" -> "null"
       [] v.k = "undefined" -> "null"
       [] v.k = "boolean" -> IF v.b THEN "true" ELSE "false"
       [] v.k = "number" -> IntToStr(v.n)
       [] v.k = "string" -> Quote(v.s)
       [] v.k = "Error" -> "{}"
       [] v.k = "array" ->
            IF v.e = <<>> THEN "[]"
            ELSE open("[") \o SerElems(v.e, inner, gap, TRUE) \o close("]")
       [] v.k = "object" ->
            LET body == SerProps(v.p, inner, gap, TRUE)
            IN IF body = "" THEN "{}" ELSE open("{") \o body \o close("}")

SerElems(e, ind, gap, first) ==
  IF e = <<>> THEN ""
  ELSE LET sep == IF first THEN ""
                  ELSE IF gap = "" THEN "," ELSE ",\n" \o ind
       IN sep \o Ser(Head(e), ind, gap) \o SerElems(Tail(e), ind, gap, FALSE)

SerProps(p, ind, gap, first) ==
  IF p = <<>> THEN ""
  ELSE IF Head(p)[2].k = "undefined" THEN SerProps(Tail(p), ind, gap, first)
  ELSE LET sep == IF first THEN ""
                  ELSE IF gap = "" THEN "," ELSE ",\n" \o ind
           colon == IF gap = "" THEN ":" ELSE ": "
       IN sep \o Quote(Head(p)[1]) \o colon \o Ser(Head(p)[2], ind, gap)
              \o SerProps(Tail(p), ind, gap, FALSE)

\* JSON.stringify(v): a string value, or undefined when v is undefined.
JSONstringify(v) == IF v.k = "undefined" THEN Undefined ELSE Str(Ser(v, "", ""))

\* JSON.stringify(v, null, 2)
JSONstringify2(v) ==
  IF v.k = "undefined" THEN Undefined ELSE Str(Ser(v, "", "  "))

\* String(v) for a value that is not an Error instance.
String(v) ==
  CASE v.k = "string" -> v.s
    [] v.k = "number" -> IntToStr(v.n)
    [] v.k = "boolean" -> IF v.b THEN "true" ELSE "false"
    [] v.k = "null" -> "null"
    [] v.k = "undefined" -> "undefined"
    [] v.k = "object" -> "[object Object]"

-----------------------------------------------------------------------------
(* encodeURIComponent, for the printable ASCII characters (the grave       *)
(* accent, code 96, left out).                                              *)

\* The characters of codes 32 to 95, in order.
AsciiLow == " !\"#$%&'()*+,-./0123456789:;<=>?@ABCDEFGHIJKLMNOPQRSTUVWXYZ[\\]^_"

\* The characters of codes 97 to 126, in order.
AsciiHigh == "abcdefghijklmnopqrstuvwxyz{|}~"

HexDigits == "0123456789ABCDEF"

\* The characters encodeURIComponent leaves alone: letters, digits and
\* - _ . ! ~ * ( ) and the apostrophe (the eighth character of AsciiLow).
Unreserved ==
  "ABCDEFGHIJKLMNOPQRSTUVWXYZabcdefghijklmnopqrstuvwxyz0123456789-_.!~*()"
  \o SubSeq(AsciiLow, 8, 8)

CharCode(c) ==
  IF Contains(AsciiLow, c)
  THEN 31 + (CHOOSE i \in 1..Len(AsciiLow) : SubSeq(AsciiLow, i, i) = c)
  ELSE 96 + (CHOOSE i \in 1..Len(AsciiHigh) : SubSeq(AsciiHigh, i, i) = c)

\* The UTF-8 encoding of a character below 128 is one byte: %XX.
PercentEncode(c) ==
  LET n == CharCode(c)
  IN "%" \o SubSeq(HexDigits, (n \div 16) + 1, (n \div 16) + 1)
         \o SubSeq(HexDigits, (n % 16) + 1, (n % 16) + 1)

RECURSIVE encodeURIComponent(_)
encodeURIComponent(s) ==
  IF s = "" THEN ""
  ELSE (IF Contains(Unreserved, Head(s)) THEN Head(s) ELSE PercentEncode(Head(s)))
       \o encodeURIComponent(Tail(s))

-----------------------------------------------------------------------------
(* Promises.                                                                *)

Pending == [s |-> "pending"]
Fulfilled(v) == [s |-> "fulfilled", value |-> v]
Rejected(e) == [s |-> "rejected", reason |-> e]

None == [k |-> "none"]

-----------------------------------------------------------------------------
(* Transport client (flowise-api.ts).                                       *)

\* The environment inputs: each is unset (undefined) or a string, which can
\* be the empty string.
EnvBaseUrls == {Undefined, Str(""), Str("http://custom-host:8080/")}
EnvApiKeys == {Undefined, Str("test-api-key")}

\* A faulty variant of getDefaultConfig: the apiKey has no fallback and is
\* turned into a string as it is.
getDefaultConfigNoFallback(e) ==
  [baseUrl |-> OrElse(e.FLOWISE_BASE_URL, Str("http://localhost:3000")).s,
   apiKey |-> String(e.FLOWISE_API_KEY)]

getDefaultConfig(e) ==
  [baseUrl |-> OrElse(e.FLOWISE_BASE_URL, Str("http://localhost:3000")).s,
   apiKey |-> OrElse(e.FLOWISE_API_KEY, Str("")).s]

\* const { baseUrl, apiKey } = config: the two values the client's request
\* function closes over, copied out of the configuration object once.
createFlowiseApiClient(cfg) == [baseUrl |-> cfg.baseUrl, apiKey |-> cfg.apiKey]

Methods == {"GET", "POST", "PUT", "DELETE"}

\* A faulty variant of RequestUrl: it tidies the slashes where the two
\* parts meet.
RequestUrlNormalised(cfg, endpoint) ==
  LET base == IF cfg.baseUrl # "" /\ SubSeq(cfg.baseUrl, Len(cfg.baseUrl),
                                           Len(cfg.baseUrl)) = "/"
              THEN SubSeq(cfg.baseUrl, 1, Len(cfg.baseUrl) - 1)
              ELSE cfg.baseUrl
      path == IF StartsWith(endpoint, "/") THEN endpoint ELSE "/" \o endpoint
  IN base \o "/api/v1" \o path

\* const url = baseUrl + "/api/v1" + endpoint (a template literal)
RequestUrl(cfg, endpoint) == cfg.baseUrl \o "/api/v1" \o endpoint

\* A faulty variant of RequestHeaders: the credential header is always set.
RequestHeadersAlwaysAuth(cfg) ==
  << <<"Content-Type", "application/json">>,
     <<"Authorization", "Bearer " \o cfg.apiKey>> >>

\* headers: Content-Type always, Authorization when apiKey is truthy.
RequestHeaders(cfg) ==
  IF Truthy(Str(cfg.apiKey))
  THEN << <<"Content-Type", "application/json">>,
          <<"Authorization", "Bearer " \o cfg.apiKey>> >>
  ELSE << <<"Content-Type", "application/json">> >>

\* A faulty variant of RequestBody: an object without properties is taken
\* for no body.
RequestBodySkipEmpty(body) ==
  IF Truthy(body) /\ body # Obj(<<>>) THEN JSONstringify(body) ELSE Undefined

\* body: body ? JSON.stringify(body) : undefined
RequestBody(body) == IF Truthy(body) THEN JSONstringify(body) ELSE Undefined

\* The arguments of the one fetch(url, {method, headers, body}) call.
FetchCall(cfg, method, endpoint, body) ==
  [url |-> RequestUrl(cfg, endpoint),
   method |-> method,
   headers |-> RequestHeaders(cfg),
   body |-> RequestBody(body)]

\* response.ok: the status is in the range 200-299.
ResponseOk(status) == status >= 200 /\ status <= 299

\* The JSON values a response body of the model can denote.
JsonDomain ==
  { Null,
    Obj(<< <<"success", Bool(TRUE)>> >>),
    Obj(<< <<"id", Str("123")>>, <<"name", Str("Test Flow")>> >>),
    Arr(<< Obj(<< <<"id", Str("1")>>, <<"name", Str("Flow 1")>> >>) >>) }

\* The texts of response bodies: JSON documents, compact and for one of
\* them indented as well, an empty body, plain text.
BodyTexts ==
  { "", "Chatflow not found", "null", "{\"success\":true}",
    "{\n  \"success\": true\n}",
    "{\"id\":\"123\",\"name\":\"Test Flow\"}",
    "[{\"id\":\"1\",\"name\":\"Flow 1\"}]" }

Statuses == {200, 204, 404, 500}

\* Text is a JSON text of value v: its compact or its indented form.
Denotes(text, v) == Ser(v, "", "") = text \/ Ser(v, "", "  ") = text

\* A faulty variant of ResponseJson: an empty body is read as null.
ResponseJsonLenient(text) ==
  IF text = "" THEN Fulfilled(Null)
  ELSE IF \E v \in JsonDomain : Denotes(text, v)
       THEN Fulfilled(CHOOSE v \in JsonDomain : Denotes(text, v))
       ELSE Rejected(Err("Unexpected end of JSON input"))

\* response.json(): the value the body text denotes, or a SyntaxError.
ResponseJson(text) ==
  IF \E v \in JsonDomain : Denotes(text, v)
  THEN Fulfilled(CHOOSE v \in JsonDomain : Denotes(text, v))
  ELSE Rejected(Err("Unexpected end of JSON input"))

\* A faulty variant of RequestSettle: the error message leaves the status out.
RequestSettleNoStatus(status, text) ==
  IF ~ResponseOk(status)
  THEN Rejected(Err("Flowise API error: " \o text))
  ELSE ResponseJson(text)

\* A faulty variant of RequestSettle: the parsed value is validated and
\* anything but an object or an array is refused.
RequestSettleValidating(status, text) ==
  IF ~ResponseOk(status)
  THEN Rejected(Err("Flowise API error (" \o IntToStr(status) \o "): " \o text))
  ELSE LET r == ResponseJson(text)
       IN IF r.s = "fulfilled" /\ r.value.k \notin {"object", "array"}
          THEN Rejected(Err("Invalid response"))
          ELSE r

\* The part of request() after the fetch: how the request promise settles
\* for a response of the given status and body text.
RequestSettle(status, text) ==
  IF ~ResponseOk(status)
  THEN Rejected(Err("Flowise API error (" \o IntToStr(status) \o "): " \o text))
  ELSE ResponseJson(text)

-----------------------------------------------------------------------------
(* Tool handlers (handlers module).                                         *)

PredictionTools ==
  { "create_prediction", "create_prediction_with_history",
    "create_prediction_with_files", "create_prediction_with_lead" }

ApiTools ==
  { "list_chatflows", "get_chatflow", "create_chatflow", "update_chatflow",
    "delete_chatflow", "list_nodes", "get_nodes_by_category", "get_node" }

Tools == PredictionTools \cup ApiTools

\* A faulty variant of successResponse: the JSON text is not indented.
successResponseCompact(data) ==
  [content |-> << [type |-> "text", text |-> JSONstringify(data)] >>]

successResponse(data) ==
  [content |-> << [type |-> "text", text |-> JSONstringify2(data)] >>]

\* A faulty variant of errorResponse: the error flag is forgotten.
errorResponseNoFlag(message) ==
  [content |-> << [type |-> "text", text |-> Str(message)] >>]

errorResponse(message) ==
  [content |-> << [type |-> "text", text |-> Str(message)] >>,
   isError |-> TRUE]

\* A faulty variant of ErrorMessage: every error goes through String(error),
\* which prints an Error instance as "Error: " followed by its message.
ErrorMessageToString(error) ==
  IF error.k = "Error"
  THEN (IF error.message = "" THEN "Error" ELSE "Error: " \o error.message)
  ELSE String(error)

\* error instanceof Error ? error.message : String(error)
ErrorMessage(error) ==
  IF error.k = "Error" THEN error.message ELSE String(error)

\* The text each handler's catch block puts before the message.
ErrorPrefix(t) ==
  CASE t \in PredictionTools -> "Error running chatflow: "
    [] t = "list_chatflows" -> "Error listing chatflows: "
    [] t = "get_chatflow" -> "Error getting chatflow: "
    [] t = "create_chatflow" -> "Error creating chatflow: "
    [] t = "update_chatflow" -> "Error updating chatflow: "
    [] t = "delete_chatflow" -> "Error deleting chatflow: "
    [] t = "list_nodes" -> "Error listing nodes: "
    [] t = "get_nodes_by_category" -> "Error getting nodes by category: "
    [] t = "get_node" -> "Error getting node: "

\* The downstream calls a handler can make.
SdkCall(arg) == [client |-> "sdk", arg |-> arg]
ApiRequest(method, endpoint, body) ==
  [client |-> "api", method |-> method, endpoint |-> endpoint, body |-> body]

\* A faulty variant of handleCreatePredictionWithHistory: the parameters are
\* spread last, {streaming: false, ...params}, so a streaming value of the
\* caller wins.
handleCreatePredictionWithHistorySpreadLast(p) ==
  SdkCall(IF HasKey(p, "streaming") THEN p ELSE Put(p, "streaming", Bool(FALSE)))

\* client.createPrediction({...params, streaming: false})
handleCreatePrediction(p) == SdkCall(Put(p, "streaming", Bool(FALSE)))
handleCreatePredictionWithHistory(p) == SdkCall(Put(p, "streaming", Bool(FALSE)))
handleCreatePredictionWithFiles(p) == SdkCall(Put(p, "streaming", Bool(FALSE)))
handleCreatePredictionWithLead(p) == SdkCall(Put(p, "streaming", Bool(FALSE)))

handleListChatflows == ApiRequest("GET", "/chatflows", Undefined)

\* A faulty variant of handleGetChatflow: the id is percent-encoded before
\* it is put into the path.
handleGetChatflowEncoded(chatflowId) ==
  ApiRequest("GET", "/chatflows/" \o encodeURIComponent(chatflowId), Undefined)

handleGetChatflow(chatflowId) ==
  ApiRequest("GET", "/chatflows/" \o chatflowId, Undefined)

\* A faulty variant of handleCreateChatflow: the type is passed on as given,
\* without the default.
handleCreateChatflowNoDefault(p) ==
  ApiRequest("POST", "/chatflows",
    Obj(<< <<"name", Get(p, "name")>>,
           <<"flowData", JSONstringify(Get(p, "flowData"))>>,
           <<"type", Get(p, "type")>>,
           <<"chatbotConfig",
             IF Truthy(Get(p, "chatbotConfig"))
             THEN JSONstringify(Get(p, "chatbotConfig"))
             ELSE Undefined>> >>))

\* A faulty variant of handleCreateChatflow: flowData is serialized a second
\* time, as the transport client serializes the whole payload anyway.
handleCreateChatflowTwice(p) ==
  ApiRequest("POST", "/chatflows",
    Obj(<< <<"name", Get(p, "name")>>,
           <<"flowData", JSONstringify(JSONstringify(Get(p, "flowData")))>>,
           <<"type", OrElse(Get(p, "type"), Str("CHATFLOW"))>>,
           <<"chatbotConfig",
             IF Truthy(Get(p, "chatbotConfig"))
             THEN JSONstringify(Get(p, "chatbotConfig"))
             ELSE Undefined>> >>))

handleCreateChatflow(p) ==
  ApiRequest("POST", "/chatflows",
    Obj(<< <<"name", Get(p, "name")>>,
           <<"flowData", JSONstringify(Get(p, "flowData"))>>,
           <<"type", OrElse(Get(p, "type"), Str("CHATFLOW"))>>,
           <<"chatbotConfig",
             IF Truthy(Get(p, "chatbotConfig"))
             THEN JSONstringify(Get(p, "chatbotConfig"))
             ELSE Undefined>> >>))

\* A faulty variant of handleUpdateChatflow: the payload always has the
\* three keys, with null for a parameter the caller left out.
handleUpdateChatflowNulls(p) ==
  ApiRequest("PUT", "/chatflows/" \o Get(p, "chatflowId").s,
    Obj(<< <<"name", IF Truthy(Get(p, "name")) THEN Get(p, "name") ELSE Null>>,
           <<"flowData",
             IF Truthy(Get(p, "flowData"))
             THEN JSONstringify(Get(p, "flowData")) ELSE Null>>,
           <<"chatbotConfig",
             IF Truthy(Get(p, "chatbotConfig"))
             THEN JSONstringify(Get(p, "chatbotConfig")) ELSE Null>> >>))

\* A faulty variant of handleUpdateChatflow: the name is tested for being
\* given (name !== undefined), so an empty name is sent.
handleUpdateChatflowDefinedName(p) ==
  LET u0 == Obj(<<>>)
      u1 == IF HasKey(p, "name") THEN Put(u0, "name", Get(p, "name")) ELSE u0
      u2 == IF Truthy(Get(p, "flowData"))
            THEN Put(u1, "flowData", JSONstringify(Get(p, "flowData"))) ELSE u1
      u3 == IF Truthy(Get(p, "chatbotConfig"))
            THEN Put(u2, "chatbotConfig", JSONstringify(Get(p, "chatbotConfig")))
            ELSE u2
  IN ApiRequest("PUT", "/chatflows/" \o Get(p, "chatflowId").s, u3)

handleUpdateChatflow(p) ==
  LET u0 == Obj(<<>>)
      u1 == IF Truthy(Get(p, "name"))
            THEN Put(u0, "name", Get(p, "name")) ELSE u0
      u2 == IF Truthy(Get(p, "flowData"))
            THEN Put(u1, "flowData", JSONstringify(Get(p, "flowData"))) ELSE u1
      u3 == IF Truthy(Get(p, "chatbotConfig"))
            THEN Put(u2, "chatbotConfig", JSONstringify(Get(p, "chatbotConfig")))
            ELSE u2
  IN ApiRequest("PUT", "/chatflows/" \o Get(p, "chatflowId").s, u3)

handleDeleteChatflow(chatflowId) ==
  ApiRequest("DELETE", "/chatflows/" \o chatflowId, Undefined)

handleListNodes == ApiRequest("GET", "/nodes", Undefined)

handleGetNodesByCategory(category) ==
  ApiRequest("GET", "/nodes/category/" \o encodeURIComponent(category), Undefined)

\* A faulty variant of handleGetNode: the name is put into the path as it is.
handleGetNodeRaw(nodeName) == ApiRequest("GET", "/nodes/" \o nodeName, Undefined)

handleGetNode(nodeName) ==
  ApiRequest("GET", "/nodes/" \o encodeURIComponent(nodeName), Undefined)

\* The names of the server.tool registrations, in the order they are made.
ToolTable ==
  << "create_prediction", "create_prediction_with_history",
     "create_prediction_with_files", "create_prediction_with_lead",
     "list_chatflows", "get_chatflow", "create_chatflow", "update_chatflow",
     "delete_chatflow", "list_nodes", "get_nodes_by_category", "get_node" >>

\* A faulty variant of Dispatch: the callback registered for get_node runs
\* the handler of list_nodes.
DispatchCrossed(t, p) ==
  CASE t = "create_prediction" -> handleCreatePrediction(p)
    [] t = "create_prediction_with_history" -> handleCreatePredictionWithHistory(p)
    [] t = "create_prediction_with_files" -> handleCreatePredictionWithFiles(p)
    [] t = "create_prediction_with_lead" -> handleCreatePredictionWithLead(p)
    [] t = "list_chatflows" -> handleListChatflows
    [] t = "get_chatflow" -> handleGetChatflow(Get(p, "chatflowId").s)
    [] t = "create_chatflow" -> handleCreateChatflow(p)
    [] t = "update_chatflow" -> handleUpdateChatflow(p)
    [] t = "delete_chatflow" -> handleDeleteChatflow(Get(p, "chatflowId").s)
    [] t = "list_nodes" -> handleListNodes
    [] t = "get_nodes_by_category" -> handleGetNodesByCategory(Get(p, "category").s)
    [] t = "get_node" -> handleListNodes

\* The tool table: the handler each registered tool name runs, and the
\* arguments the registration's callback hands it.
Dispatch(t, p) ==
  CASE t = "create_prediction" -> handleCreatePrediction(p)
    [] t = "create_prediction_with_history" -> handleCreatePredictionWithHistory(p)
    [] t = "create_prediction_with_files" -> handleCreatePredictionWithFiles(p)
    [] t = "create_prediction_with_lead" -> handleCreatePredictionWithLead(p)
    [] t = "list_chatflows" -> handleListChatflows
    [] t = "get_chatflow" -> handleGetChatflow(Get(p, "chatflowId").s)
    [] t = "create_chatflow" -> handleCreateChatflow(p)
    [] t = "update_chatflow" -> handleUpdateChatflow(p)
    [] t = "delete_chatflow" -> handleDeleteChatflow(Get(p, "chatflowId").s)
    [] t = "list_nodes" -> handleListNodes
    [] t = "get_nodes_by_category" -> handleGetNodesByCategory(Get(p, "category").s)
    [] t = "get_node" -> handleGetNode(Get(p, "nodeName").s)

\* A faulty variant of OnResolve: delete_chatflow returns the raw response
\* of the DELETE request like every other tool.
OnResolveRaw(t, p, v) == successResponse(v)

\* The try branch after the await: what the handler returns for value v.
OnResolve(t, p, v) ==
  IF t = "delete_chatflow"
  THEN successResponse(Obj(<< <<"success", Bool(TRUE)>>,
                              <<"deleted", Get(p, "chatflowId")>>,
                              <<"result", v>> >>))
  ELSE successResponse(v)

\* A faulty variant of OnReject: the cause is replaced by a fixed text.
OnRejectGeneric(t, error) == errorResponse(ErrorPrefix(t) \o "request failed")

\* The catch branch: what the handler returns for a thrown error.
OnReject(t, error) == errorResponse(ErrorPrefix(t) \o ErrorMessage(error))

\* A faulty variant of HandlerSettle: the catch block handles Error
\* instances only and throws anything else again.
HandlerSettleRethrow(t, p, o) ==
  IF o.s = "fulfilled"
  THEN Fulfilled(OnResolve(t, p, o.value))
  ELSE IF o.reason.k = "Error"
       THEN Fulfilled(OnReject(t, o.reason))
       ELSE Rejected(o.reason)

\* A faulty variant of HandlerSettle: delete_chatflow takes a failed DELETE
\* for a chatflow that is gone and reports the deletion all the same.
HandlerSettleOptimistic(t, p, o) ==
  IF o.s = "fulfilled"
  THEN Fulfilled(OnResolve(t, p, o.value))
  ELSE IF t = "delete_chatflow"
       THEN Fulfilled(OnResolve(t, p, Null))
       ELSE Fulfilled(OnReject(t, o.reason))

\* How the handler's own promise settles once its downstream promise o has.
HandlerSettle(t, p, o) ==
  IF o.s = "fulfilled"
  THEN Fulfilled(OnResolve(t, p, o.value))
  ELSE Fulfilled(OnReject(t, o.reason))

-----------------------------------------------------------------------------
(* The single-file entry point (index.ts): its own request helper and the   *)
(* twelve tool callbacks written out in the registrations.                  *)

\* const FLOWISE_BASE_URL = process.env.FLOWISE_BASE_URL || "http://localhost:3000"
FLOWISE_BASE_URL(e) == OrElse(e.FLOWISE_BASE_URL, Str("http://localhost:3000")).s

\* const FLOWISE_API_KEY = process.env.FLOWISE_API_KEY || ""
FLOWISE_API_KEY(e) == OrElse(e.FLOWISE_API_KEY, Str("")).s

\* flowiseApi up to its fetch: the arguments of the fetch call.
flowiseApiFetch(e, method, endpoint, body) ==
  [url |-> FLOWISE_BASE_URL(e) \o "/api/v1" \o endpoint,
   method |-> method,
   headers |-> IF Truthy(Str(FLOWISE_API_KEY(e)))
               THEN << <<"Content-Type", "application/json">>,
                       <<"Authorization", "Bearer " \o FLOWISE_API_KEY(e)>> >>
               ELSE << <<"Content-Type", "application/json">> >>,
   body |-> IF Truthy(body) THEN JSONstringify(body) ELSE Undefined]

\* flowiseApi after its fetch: how its promise settles for a response.
flowiseApiSettle(status, text) ==
  IF ~(status >= 200 /\ status <= 299)
  THEN Rejected(Err("Flowise API error (" \o IntToStr(status) \o "): " \o text))
  ELSE ResponseJson(text)

\* The keys of each tool's parameter schema, in the order of the schema.
SchemaKeys(t) ==
  CASE t = "create_prediction" ->
         <<"chatflowId", "question", "chatId", "overrideConfig">>
    [] t = "create_prediction_with_history" ->
         <<"chatflowId", "question", "history", "chatId", "overrideConfig">>
    [] t = "create_prediction_with_files" ->
         <<"chatflowId", "question", "uploads", "chatId", "overrideConfig">>
    [] t = "create_prediction_with_lead" ->
         <<"chatflowId", "question", "leadEmail", "chatId", "overrideConfig">>
    [] t = "list_chatflows" -> <<>>
    [] t = "get_chatflow" -> <<"chatflowId">>
    [] t = "create_chatflow" -> <<"name", "flowData", "type", "chatbotConfig">>
    [] t = "update_chatflow" ->
         <<"chatflowId", "name", "flowData", "chatbotConfig">>
    [] t = "delete_chatflow" -> <<"chatflowId">>
    [] t = "list_nodes" -> <<>>
    [] t = "get_nodes_by_category" -> <<"category">>
    [] t = "get_node" -> <<"nodeName">>

\* The value a schema key has when the caller leaves it out: only the type
\* of create_chatflow has a default.
SchemaDefault(t, key) ==
  IF t = "create_chatflow" /\ key = "type" THEN Str("CHATFLOW") ELSE Undefined

\* The parameters a callback receives: the schema's keys that the caller
\* gave or that have a default, in the schema's order; other keys are
\* dropped.
RECURSIVE SchemaPairs(_, _, _)
SchemaPairs(t, keys, p) ==
  IF keys = <<>> THEN <<>>
  ELSE LET key == Head(keys)
           v == IF HasKey(p, key) THEN Get(p, key) ELSE SchemaDefault(t, key)
       IN (IF v = Undefined THEN <<>> ELSE << <<key, v>> >>)
          \o SchemaPairs(t, Tail(keys), p)

SchemaParse(t, p) == Obj(SchemaPairs(t, SchemaKeys(t), p))

\* {k1, k2, ...}: an object literal of destructured parameters; a parameter
\* that was left out is a key with the value undefined.
RECURSIVE PickPairs(_, _)
PickPairs(p, keys) ==
  IF keys = <<>> THEN <<>>
  ELSE << <<Head(keys), Get(p, Head(keys))>> >> \o PickPairs(p, Tail(keys))

\* A faulty variant of InlineCall: get_node puts the name into the path as
\* it is.
InlineCallRawNode(t, p) ==
  CASE t \in PredictionTools ->
         SdkCall(Obj(PickPairs(p, SchemaKeys(t))
                     \o << <<"streaming", Bool(FALSE)>> >>))
    [] t = "list_chatflows" -> ApiRequest("GET", "/chatflows", Undefined)
    [] t = "get_chatflow" ->
         ApiRequest("GET", "/chatflows/" \o Get(p, "chatflowId").s, Undefined)
    [] t = "create_chatflow" ->
         ApiRequest("POST", "/chatflows",
           Obj(<< <<"name", Get(p, "name")>>,
                  <<"flowData", JSONstringify(Get(p, "flowData"))>>,
                  <<"type", OrElse(Get(p, "type"), Str("CHATFLOW"))>>,
                  <<"chatbotConfig",
                    IF Truthy(Get(p, "chatbotConfig"))
                    THEN JSONstringify(Get(p, "chatbotConfig"))
                    ELSE Undefined>> >>))
    [] t = "update_chatflow" ->
         LET u0 == Obj(<<>>)
             u1 == IF Truthy(Get(p, "name"))
                   THEN Put(u0, "name", Get(p, "name")) ELSE u0
             u2 == IF Truthy(Get(p, "flowData"))
                   THEN Put(u1, "flowData", JSONstringify(Get(p, "flowData")))
                   ELSE u1
             u3 == IF Truthy(Get(p, "chatbotConfig"))
                   THEN Put(u2, "chatbotConfig",
                            JSONstringify(Get(p, "chatbotConfig")))
                   ELSE u2
         IN ApiRequest("PUT", "/chatflows/" \o Get(p, "chatflowId").s, u3)
    [] t = "delete_chatflow" ->
         ApiRequest("DELETE", "/chatflows/" \o Get(p, "chatflowId").s, Undefined)
    [] t = "list_nodes" -> ApiRequest("GET", "/nodes", Undefined)
    [] t = "get_nodes_by_category" ->
         ApiRequest("GET",
           "/nodes/category/" \o encodeURIComponent(Get(p, "category").s),
           Undefined)
    [] t = "get_node" ->
         ApiRequest("GET", "/nodes/" \o Get(p, "nodeName").s, Undefined)

\* The downstream call of each inline callback.  The prediction callbacks
\* list the keys they pass, followed by streaming: false.
InlineCall(t, p) ==
  CASE t \in PredictionTools ->
         SdkCall(Obj(PickPairs(p, SchemaKeys(t))
                     \o << <<"streaming", Bool(FALSE)>> >>))
    [] t = "list_chatflows" -> ApiRequest("GET", "/chatflows", Undefined)
    [] t = "get_chatflow" ->
         ApiRequest("GET", "/chatflows/" \o Get(p, "chatflowId").s, Undefined)
    [] t = "create_chatflow" ->
         ApiRequest("POST", "/chatflows",
           Obj(<< <<"name", Get(p, "name")>>,
                  <<"flowData", JSONstringify(Get(p, "flowData"))>>,
                  <<"type", OrElse(Get(p, "type"), Str("CHATFLOW"))>>,
                  <<"chatbotConfig",
                    IF Truthy(Get(p, "chatbotConfig"))
                    THEN JSONstringify(Get(p, "chatbotConfig"))
                    ELSE Undefined>> >>))
    [] t = "update_chatflow" ->
         LET u0 == Obj(<<>>)
             u1 == IF Truthy(Get(p, "name"))
                   THEN Put(u0, "name", Get(p, "name")) ELSE u0
             u2 == IF Truthy(Get(p, "flowData"))
                   THEN Put(u1, "flowData", JSONstringify(Get(p, "flowData")))
                   ELSE u1
             u3 == IF Truthy(Get(p, "chatbotConfig"))
                   THEN Put(u2, "chatbotConfig",
                            JSONstringify(Get(p, "chatbotConfig")))
                   ELSE u2
         IN ApiRequest("PUT", "/chatflows/" \o Get(p, "chatflowId").s, u3)
    [] t = "delete_chatflow" ->
         ApiRequest("DELETE", "/chatflows/" \o Get(p, "chatflowId").s, Undefined)
    [] t = "list_nodes" -> ApiRequest("GET", "/nodes", Undefined)
    [] t = "get_nodes_by_category" ->
         ApiRequest("GET",
           "/nodes/category/" \o encodeURIComponent(Get(p, "category").s),
           Undefined)
    [] t = "get_node" ->
         ApiRequest("GET",
           "/nodes/" \o encodeURIComponent(Get(p, "nodeName").s), Undefined)

\* The try/catch of each inline callback: the response it returns once its
\* downstream promise o has settled.
InlineSettle(t, p, o) ==
  IF o.s = "fulfilled"
  THEN Fulfilled(
         [content |-> << [type |-> "text",
            text |-> JSONstringify2(
              IF t = "delete_chatflow"
              THEN Obj(<< <<"success", Bool(TRUE)>>,
                          <<"deleted", Get(p, "chatflowId")>>,
                          <<"result", o.value>> >>)
              ELSE o.value)] >>])
  ELSE LET errorMessage == IF o.reason.k = "Error" THEN o.reason.message
                           ELSE String(o.reason)
           prefix ==
             CASE t \in PredictionTools -> "Error running chatflow: "
               [] t = "list_chatflows" -> "Error listing chatflows: "
               [] t = "get_chatflow" -> "Error getting chatflow: "
               [] t = "create_chatflow" -> "Error creating chatflow: "
               [] t = "update_chatflow" -> "Error updating chatflow: "
               [] t = "delete_chatflow" -> "Error deleting chatflow: "
               [] t = "list_nodes" -> "Error listing nodes: "
               [] t = "get_nodes_by_category" ->
                    "Error getting nodes by category: "
               [] t = "get_node" -> "Error getting node: "
       IN Fulfilled([content |-> << [type |-> "text",
                                     text |-> Str(prefix \o errorMessage)] >>,
                     isError |-> TRUE])

-----------------------------------------------------------------------------
(* The inputs of the model.                                                 *)

\* pairs, with <<key, v>> added unless v is undefined (an omitted parameter).
WithOpt(pairs, key, v) ==
  IF v = Undefined THEN pairs ELSE Append(pairs, <<key, v>>)

FlowData == Obj(<< <<"nodes", Arr(<<>>)>>, <<"edges", Arr(<<>>)>> >>)
ChatbotConfigs == { Obj(<<>>), Obj(<< <<"welcomeMessage", Str("Say \"hi\"")>> >>) }
ChatflowIds == {"123", "999", "a b/c"}

PredictionBase == << <<"chatflowId", Str("abc")>>, <<"question", Str("hi")>> >>

\* The parameter objects a caller can hand to each tool.
ParamsOf(t) ==
  CASE t = "create_prediction" ->
         { Obj(PredictionBase),
           Obj(PredictionBase \o << <<"chatId", Str("s1")>>,
                 <<"overrideConfig", Obj(<< <<"temperature", Num(0)>> >>)>> >>),
           Obj(PredictionBase \o << <<"streaming", Bool(TRUE)>> >>) }
    [] t = "create_prediction_with_history" ->
         { Obj(PredictionBase \o << <<"history",
                 Arr(<< Obj(<< <<"message", Str("hello")>>,
                               <<"type", Str("userMessage")>> >>) >>)>> >> \o x)
           : x \in { <<>>, << <<"streaming", Bool(TRUE)>> >> } }
    [] t = "create_prediction_with_files" ->
         { Obj(PredictionBase \o << <<"uploads",
                 Arr(<< Obj(<< <<"type", Str("file")>>, <<"name", Str("a.png")>>,
                               <<"mime", Str("image/png")>> >>) >>)>> >>) }
    [] t = "create_prediction_with_lead" ->
         { Obj(PredictionBase \o << <<"leadEmail", Str("lead@example.com")>> >>) }
    [] t \in {"list_chatflows", "list_nodes"} -> { Obj(<<>>) }
    [] t \in {"get_chatflow", "delete_chatflow"} ->
         { Obj(<< <<"chatflowId", Str(id)>> >>) : id \in ChatflowIds }
    [] t = "create_chatflow" ->
         { Obj(WithOpt(WithOpt(<< <<"name", Str("New Flow")>>,
                                  <<"flowData", FlowData>> >>, "type", ty),
                       "chatbotConfig", cc))
           : ty \in {Undefined, Str("AGENTFLOW")},
             cc \in {Undefined} \cup ChatbotConfigs }
    [] t = "update_chatflow" ->
         { Obj(WithOpt(WithOpt(WithOpt(<< <<"chatflowId", Str("123")>> >>,
                                       "name", nm), "flowData", fd),
                       "chatbotConfig", cc))
           : nm \in {Undefined, Str(""), Str("Updated Flow")},
             fd \in {Undefined, FlowData},
             cc \in {Undefined} \cup ChatbotConfigs }
         \cup { Obj(<< <<"chatflowId", Str("a b/c")>>,
                       <<"name", Str("Updated Flow")>> >>) }
    [] t = "get_nodes_by_category" ->
         { Obj(<< <<"category", Str(c)>> >>)
           : c \in {"Chat Models", "Tools & Utilities"} }
    [] t = "get_node" ->
         { Obj(<< <<"nodeName", Str(n)>> >>)
           : n \in {"chatOpenAI", "custom/node", "a&b c/d?e#f"} }

\* The client a handler is given: the prediction client, the transport
\* client built by createFlowiseApiClient, or a test double of it.
ImplsOf(t) == IF t \in PredictionTools THEN {"sdk"} ELSE {"real", "double"}

\* The arguments of a direct call of the transport client's request().
Endpoints == {"/chatflows", "/chatflows/123", "nodes"}
DirectBodies ==
  { Undefined, Null, Num(0), Bool(FALSE), Str(""), Obj(<<>>),
    Obj(<< <<"name", Str("New Flow")>>, <<"flowData", Str("{}")>> >>) }

\* How the promise of the prediction client or of a test double can settle.
ResolveValues ==
  { Undefined, Null, Num(0), Str("hello"),
    Obj(<< <<"text", Str("hello")>> >>),
    Arr(<< Obj(<< <<"id", Str("1")>>, <<"name", Str("Flow 1")>> >>) >>) }
RejectReasons ==
  { Err("Chatflow not found"), Err(""), Str("boom"), Num(42), Null, Undefined,
    Obj(<<>>) }
Settlements ==
  { Fulfilled(v) : v \in ResolveValues } \cup { Rejected(e) : e \in RejectReasons }

-----------------------------------------------------------------------------
(* The state machine.                                                       *)

\* A slot for one concurrent tool call, with no call in it.
Slots == 1..MaxConcurrent
IdleCall ==
  [pc |-> "idle", tool |-> "none", params |-> None, impl |-> "none",
   sdkArg |-> None, apiCall |-> None, fetchReq |-> None, outcome |-> Pending,
   result |-> Pending]

\* No comparison of two runs is under way.
IdlePair == [pc |-> "idle"]

Init ==
  /\ env \in [FLOWISE_BASE_URL : EnvBaseUrls, FLOWISE_API_KEY : EnvApiKeys]
  /\ configObj = getDefaultConfig(env)
  /\ config = createFlowiseApiClient(configObj)
  /\ calls = [s \in Slots |-> IdleCall]
  /\ pair = IdlePair
  /\ pc = "idle"
  /\ tool = "none"
  /\ params = None
  /\ impl = "none"
  /\ sdkArg = None
  /\ apiCall = None
  /\ fetchReq = None
  /\ sdkCalls = 0
  /\ apiCalls = 0
  /\ fetches = 0
  /\ httpResponse = None
  /\ outcome = Pending
  /\ result = Pending
  /\ served = 0

\* A faulty variant of Request: the client keeps the configuration object and
\* reads baseUrl and apiKey from it at every request.
RequestLive(method, endpoint, body) ==
  /\ fetchReq' = FetchCall(configObj, method, endpoint, body)
  /\ fetches' = fetches + 1

\* The transport client's request(), up to and including its fetch call.
Request(method, endpoint, body) ==
  /\ fetchReq' = FetchCall(config, method, endpoint, body)
  /\ fetches' = fetches + 1

\* A tool call arrives: the handler runs up to its await, which makes the
\* downstream call.
Invoke(t, p, i) ==
  /\ pc = "idle"
  /\ served < MaxCalls
  /\ tool' = t
  /\ params' = p
  /\ impl' = i
  /\ LET c == Dispatch(t, p)
     IN IF c.client = "sdk"
        THEN /\ i = "sdk"
             /\ sdkArg' = c.arg
             /\ sdkCalls' = sdkCalls + 1
             /\ UNCHANGED <<apiCall, apiCalls, fetchReq, fetches>>
        ELSE /\ i \in {"real", "double"}
             /\ apiCall' = [method |-> c.method, endpoint |-> c.endpoint,
                            body |-> c.body]
             /\ apiCalls' = apiCalls + 1
             /\ IF i = "real"
                THEN Request(c.method, c.endpoint, c.body)
                ELSE UNCHANGED <<fetchReq, fetches>>
             /\ UNCHANGED <<sdkArg, sdkCalls>>
  /\ pc' = "awaiting"
  /\ UNCHANGED <<calls, pair, configObj>>
  /\ UNCHANGED <<env, config, httpResponse, outcome, result, served>>

\* A caller uses the transport client directly.
DirectRequest(method, endpoint, body) ==
  /\ pc = "idle"
  /\ served < MaxCalls
  /\ tool' = "request"
  /\ impl' = "real"
  /\ apiCall' = [method |-> method, endpoint |-> endpoint, body |-> body]
  /\ apiCalls' = apiCalls + 1
  /\ Request(method, endpoint, body)
  /\ pc' = "awaiting"
  /\ UNCHANGED <<calls, pair, configObj>>
  /\ UNCHANGED <<env, config, params, sdkArg, sdkCalls, httpResponse, outcome,
                 result, served>>

\* The prediction client's promise, or a test double's, settles.
StubSettle(o) ==
  /\ pc = "awaiting"
  /\ impl \in {"sdk", "double"}
  /\ outcome' = o
  /\ pc' = "settled"
  /\ UNCHANGED <<calls, pair, configObj>>
  /\ UNCHANGED <<env, config, tool, params, impl, sdkArg, apiCall, fetchReq,
                 sdkCalls, apiCalls, fetches, httpResponse, result, served>>

\* fetch rejects (a network failure): request() rejects with that error.
FetchReject ==
  /\ pc = "awaiting"
  /\ impl = "real"
  /\ outcome' = Rejected(Err("fetch failed"))
  /\ pc' = "settled"
  /\ UNCHANGED <<calls, pair, configObj>>
  /\ UNCHANGED <<env, config, tool, params, impl, sdkArg, apiCall, fetchReq,
                 sdkCalls, apiCalls, fetches, httpResponse, result, served>>

\* A faulty variant of FetchRespond: a server error is tried once more.
FetchRespondRetry(status, text) ==
  /\ pc = "awaiting"
  /\ impl = "real"
  /\ IF status >= 500 /\ fetches < 2
     THEN /\ fetches' = fetches + 1
          /\ UNCHANGED <<httpResponse, outcome, pc>>
     ELSE /\ httpResponse' = [status |-> status, text |-> text]
          /\ outcome' = RequestSettle(status, text)
          /\ pc' = "settled"
          /\ UNCHANGED fetches
  /\ UNCHANGED <<calls, pair, configObj>>
  /\ UNCHANGED <<env, config, tool, params, impl, sdkArg, apiCall, fetchReq,
                 sdkCalls, apiCalls, result, served>>

\* fetch resolves with a response: request() reads it and settles.
FetchRespond(status, text) ==
  /\ pc = "awaiting"
  /\ impl = "real"
  /\ httpResponse' = [status |-> status, text |-> text]
  /\ outcome' = RequestSettle(status, text)
  /\ pc' = "settled"
  /\ UNCHANGED <<calls, pair, configObj>>
  /\ UNCHANGED <<env, config, tool, params, impl, sdkArg, apiCall, fetchReq,
                 sdkCalls, apiCalls, fetches, result, served>>

\* A faulty variant of Return: a failed downstream call is made once more
\* before the failure is reported.
ReturnRetry ==
  /\ pc = "settled"
  /\ tool \in Tools
  /\ IF outcome.s = "rejected" /\ sdkCalls + apiCalls < 2
     THEN /\ pc' = "awaiting"
          /\ outcome' = Pending
          /\ IF impl = "sdk"
             THEN sdkCalls' = sdkCalls + 1 /\ UNCHANGED <<apiCalls, fetches>>
             ELSE /\ apiCalls' = apiCalls + 1
                  /\ fetches' = IF impl = "real" THEN fetches + 1 ELSE fetches
                  /\ UNCHANGED sdkCalls
          /\ UNCHANGED result
     ELSE /\ result' = HandlerSettle(tool, params, outcome)
          /\ pc' = "returned"
          /\ UNCHANGED <<sdkCalls, apiCalls, fetches, outcome>>
  /\ UNCHANGED <<calls, pair, configObj>>
  /\ UNCHANGED <<env, config, tool, params, impl, sdkArg, apiCall, fetchReq,
                 httpResponse, served>>

\* The handler resumes after its await and returns.
Return ==
  /\ pc = "settled"
  /\ tool \in Tools
  /\ result' = HandlerSettle(tool, params, outcome)
  /\ pc' = "returned"
  /\ UNCHANGED <<calls, pair, configObj>>
  /\ UNCHANGED <<env, config, tool, params, impl, sdkArg, apiCall, fetchReq,
                 sdkCalls, apiCalls, fetches, httpResponse, outcome, served>>

\* The call is over; the process waits for the next one.
NextCall ==
  /\ \/ pc = "returned"
     \/ pc = "settled" /\ tool = "request"
  /\ pc' = "idle"
  /\ tool' = "none"
  /\ params' = None
  /\ impl' = "none"
  /\ sdkArg' = None
  /\ apiCall' = None
  /\ fetchReq' = None
  /\ sdkCalls' = 0
  /\ apiCalls' = 0
  /\ fetches' = 0
  /\ httpResponse' = None
  /\ outcome' = Pending
  /\ result' = Pending
  /\ served' = served + 1
  /\ UNCHANGED <<calls, pair, configObj>>
  /\ UNCHANGED <<env, config>>

Next ==
  \/ \E n \in 1..Len(ToolTable) :
       \E p \in ParamsOf(ToolTable[n]) : \E i \in ImplsOf(ToolTable[n]) :
         Invoke(ToolTable[n], p, i)
  \/ \E m \in Methods : \E e \in Endpoints : \E b \in DirectBodies :
       DirectRequest(m, e, b)
  \/ \E o \in Settlements : StubSettle(o)
  \/ FetchReject
  \/ \E st \in Statuses : \E tx \in BodyTexts : FetchRespond(st, tx)
  \/ Return
  \/ NextCall

Spec == Init /\ [][Next]_vars

-----------------------------------------------------------------------------
(* The process with its surroundings changing after start-up.               *)

\* The values a later assignment gives a field of the configuration object.
ChangedConfig ==
  [baseUrl |-> "http://changed-host:9000", apiKey |-> "changed-key"]

\* Some code of the process sets or deletes an environment variable.
SetEnv(name, v) ==
  /\ env[name] # v
  /\ env' = [env EXCEPT ![name] = v]
  /\ UNCHANGED <<configObj, config, pc, tool, params, impl, sdkArg, apiCall,
                 fetchReq, sdkCalls, apiCalls, fetches, httpResponse, outcome,
                 result, served, calls, pair>>

\* Some code that holds the configuration object assigns to one of its
\* fields.
MutateConfig(field) ==
  /\ configObj[field] # ChangedConfig[field]
  /\ configObj' = [configObj EXCEPT ![field] = ChangedConfig[field]]
  /\ UNCHANGED <<env, config, pc, tool, params, impl, sdkArg, apiCall,
                 fetchReq, sdkCalls, apiCalls, fetches, httpResponse, outcome,
                 result, served, calls, pair>>

NextEnv ==
  \/ Next
  \/ \E v \in EnvBaseUrls : SetEnv("FLOWISE_BASE_URL", v)
  \/ \E v \in EnvApiKeys : SetEnv("FLOWISE_API_KEY", v)
  \/ \E field \in {"baseUrl", "apiKey"} : MutateConfig(field)

SpecEnv == Init /\ [][NextEnv]_vars

-----------------------------------------------------------------------------
(* Several tool calls in flight at once.  Each call has its own handler     *)
(* activation (a slot); the clients and the configuration are the module's. *)

\* The tools, parameters and downstream outcomes of the concurrent runs.
ConcTools ==
  {"create_prediction", "get_chatflow", "update_chatflow", "delete_chatflow"}

ConcParamsOf(t) ==
  CASE t = "create_prediction" -> { Obj(PredictionBase) }
    [] t = "get_chatflow" ->
         { Obj(<< <<"chatflowId", Str(id)>> >>) : id \in {"123", "999"} }
    [] t = "update_chatflow" ->
         { Obj(<< <<"chatflowId", Str("123")>>, <<"name", Str("Updated Flow")>> >>),
           Obj(<< <<"chatflowId", Str("123")>>, <<"flowData", FlowData>> >>) }
    [] t = "delete_chatflow" -> { Obj(<< <<"chatflowId", Str("999")>> >>) }

ConcSettlements ==
  { Fulfilled(Obj(<< <<"text", Str("hello")>> >>)),
    Rejected(Err("Chatflow not found")) }

ConcResponses ==
  { <<200, "{\"id\":\"123\",\"name\":\"Test Flow\"}">>,
    <<404, "Chatflow not found">> }

\* obj[key] = v for each <<key, v>> of pairs, in order.
RECURSIVE PutAll(_, _)
PutAll(o, pairs) ==
  IF pairs = <<>> THEN o
  ELSE PutAll(Put(o, Head(pairs)[1], Head(pairs)[2]), Tail(pairs))

\* The call record of slot s after the handler of tool t has run up to its
\* await with downstream call c.
Started(t, p, i, c) ==
  [pc |-> "awaiting", tool |-> t, params |-> p, impl |-> i,
   sdkArg |-> IF c.client = "sdk" THEN c.arg ELSE None,
   apiCall |-> IF c.client = "sdk" THEN None
               ELSE [method |-> c.method, endpoint |-> c.endpoint,
                     body |-> c.body],
   fetchReq |-> IF c.client = "sdk" THEN None
                ELSE FetchCall(config, c.method, c.endpoint, c.body),
   outcome |-> Pending, result |-> Pending]

\* What the single-call specifications use.
single ==
  <<env, configObj, config, pc, tool, params, impl, sdkArg, apiCall, fetchReq,
    sdkCalls, apiCalls, fetches, httpResponse, outcome, result, served>>

\* A faulty variant of InvokeC: updateData is one object of the module, so
\* an update also sends the fields of the other updates in flight.
InvokeCShared(s, t, p, i) ==
  /\ calls[s].pc = "idle"
  /\ i = (IF t \in PredictionTools THEN "sdk" ELSE "real")
  /\ LET c == Dispatch(t, p)
         others == { x \in Slots \ {s} : calls[x].tool = "update_chatflow" }
         shared == IF others = {} THEN Obj(<<>>)
                   ELSE calls[CHOOSE x \in others : TRUE].apiCall.body
     IN calls' = [calls EXCEPT ![s] =
          Started(t, p, i,
                  IF t = "update_chatflow"
                  THEN [c EXCEPT !.body = PutAll(shared, c.body.p)]
                  ELSE c)]
  /\ UNCHANGED <<single, pair>>

\* A tool call arrives while others may be in flight: its handler runs up to
\* its await, which makes the downstream call.
InvokeC(s, t, p, i) ==
  /\ calls[s].pc = "idle"
  /\ i = (IF t \in PredictionTools THEN "sdk" ELSE "real")
  /\ calls' = [calls EXCEPT ![s] = Started(t, p, i, Dispatch(t, p))]
  /\ UNCHANGED <<single, pair>>

\* The prediction client's promise of call s settles.
StubSettleC(s, o) ==
  /\ calls[s].pc = "awaiting"
  /\ calls[s].impl = "sdk"
  /\ calls' = [calls EXCEPT ![s].outcome = o, ![s].pc = "settled"]
  /\ UNCHANGED <<single, pair>>

\* The fetch of call s rejects.
FetchRejectC(s) ==
  /\ calls[s].pc = "awaiting"
  /\ calls[s].impl = "real"
  /\ calls' = [calls EXCEPT ![s].outcome = Rejected(Err("fetch failed")),
                            ![s].pc = "settled"]
  /\ UNCHANGED <<single, pair>>

\* The fetch of call s resolves with a response.
FetchRespondC(s, status, text) ==
  /\ calls[s].pc = "awaiting"
  /\ calls[s].impl = "real"
  /\ calls' = [calls EXCEPT ![s].outcome = RequestSettle(status, text),
                            ![s].pc = "settled"]
  /\ UNCHANGED <<single, pair>>

\* The handler of call s resumes after its await and returns.
ReturnC(s) ==
  /\ calls[s].pc = "settled"
  /\ calls' = [calls EXCEPT
       ![s].result = HandlerSettle(calls[s].tool, calls[s].params,
                                   calls[s].outcome),
       ![s].pc = "returned"]
  /\ UNCHANGED <<single, pair>>

\* Call s is over.
ReleaseC(s) ==
  /\ calls[s].pc = "returned"
  /\ calls' = [calls EXCEPT ![s] = IdleCall]
  /\ UNCHANGED <<single, pair>>

NextConc ==
  \E s \in Slots :
    \/ \E t \in ConcTools : \E p \in ConcParamsOf(t) : \E i \in {"sdk", "real"} :
         InvokeC(s, t, p, i)
    \/ \E o \in ConcSettlements : StubSettleC(s, o)
    \/ FetchRejectC(s)
    \/ \E r \in ConcResponses : FetchRespondC(s, r[1], r[2])
    \/ ReturnC(s)
    \/ ReleaseC(s)

SpecConc == Init /\ [][NextConc]_vars

-----------------------------------------------------------------------------
(* The two entry points side by side: the same tool call is given to the    *)
(* refactored entry point (registration, extracted handler, transport       *)
(* client) and to the single-file entry point (registration, inline         *)
(* callback, flowiseApi), and both get the same downstream answer.          *)

\* The fetch call a downstream call c leads to, when it goes to the REST API.
ExtractedFetch(c) ==
  IF c.client = "sdk" THEN None
  ELSE FetchCall(config, c.method, c.endpoint, c.body)

InlineFetch(c) ==
  IF c.client = "sdk" THEN None
  ELSE flowiseApiFetch(env, c.method, c.endpoint, c.body)

\* A tools/call request reaches both servers: each parses the arguments
\* with the tool's schema and runs its callback up to the await.
PairInvoke(t, p) ==
  /\ pair.pc = "idle"
  /\ LET q == SchemaParse(t, p)
     IN pair' = [pc |-> "awaiting", tool |-> t, args |-> p, params |-> q,
                 extracted |-> Dispatch(t, q),
                 inline |-> InlineCall(t, q),
                 extractedFetch |-> ExtractedFetch(Dispatch(t, q)),
                 inlineFetch |-> InlineFetch(InlineCall(t, q))]
  /\ UNCHANGED <<single, calls>>

\* The SDK client's promise settles the same way on both sides.
PairSdkSettle(o) ==
  /\ pair.pc = "awaiting"
  /\ pair.tool \in PredictionTools
  /\ pair' = [pc |-> "settled", tool |-> pair.tool, args |-> pair.args,
              params |-> pair.params,
              extracted |-> pair.extracted, inline |-> pair.inline,
              extractedFetch |-> pair.extractedFetch,
              inlineFetch |-> pair.inlineFetch,
              answer |-> o, extractedOutcome |-> o, inlineOutcome |-> o]
  /\ UNCHANGED <<single, calls>>

\* The fetch rejects on both sides.
PairFetchReject ==
  /\ pair.pc = "awaiting"
  /\ pair.tool \in ApiTools
  /\ pair' = [pc |-> "settled", tool |-> pair.tool, args |-> pair.args,
              params |-> pair.params,
              extracted |-> pair.extracted, inline |-> pair.inline,
              extractedFetch |-> pair.extractedFetch,
              inlineFetch |-> pair.inlineFetch,
              answer |-> Rejected(Err("fetch failed")),
              extractedOutcome |-> Rejected(Err("fetch failed")),
              inlineOutcome |-> Rejected(Err("fetch failed"))]
  /\ UNCHANGED <<single, calls>>

\* The backing API gives both sides the same response.
PairFetchRespond(status, text) ==
  /\ pair.pc = "awaiting"
  /\ pair.tool \in ApiTools
  /\ pair' = [pc |-> "settled", tool |-> pair.tool, args |-> pair.args,
              params |-> pair.params,
              extracted |-> pair.extracted, inline |-> pair.inline,
              extractedFetch |-> pair.extractedFetch,
              inlineFetch |-> pair.inlineFetch,
              answer |-> [status |-> status, text |-> text],
              extractedOutcome |-> RequestSettle(status, text),
              inlineOutcome |-> flowiseApiSettle(status, text)]
  /\ UNCHANGED <<single, calls>>

\* Both callbacks resume after their await and return.
PairReturn ==
  /\ pair.pc = "settled"
  /\ pair' = [pc |-> "returned", tool |-> pair.tool, args |-> pair.args,
              params |-> pair.params,
              extracted |-> pair.extracted, inline |-> pair.inline,
              extractedFetch |-> pair.extractedFetch,
              inlineFetch |-> pair.inlineFetch,
              answer |-> pair.answer,
              extractedOutcome |-> pair.extractedOutcome,
              inlineOutcome |-> pair.inlineOutcome,
              extractedResult |->
                HandlerSettle(pair.tool, pair.params, pair.extractedOutcome),
              inlineResult |->
                InlineSettle(pair.tool, pair.params, pair.inlineOutcome)]
  /\ UNCHANGED <<single, calls>>

\* The comparison is over.
PairRelease ==
  /\ pair.pc = "returned"
  /\ pair' = IdlePair
  /\ UNCHANGED <<single, calls>>

NextPair ==
  \/ \E n \in 1..Len(ToolTable) : \E p \in ParamsOf(ToolTable[n]) :
       PairInvoke(ToolTable[n], p)
  \/ \E o \in Settlements : PairSdkSettle(o)
  \/ PairFetchReject
  \/ \E status \in Statuses : \E text \in BodyTexts :
       PairFetchRespond(status, text)
  \/ PairReturn
  \/ PairRelease

SpecPair == Init /\ [][NextPair]_vars

-----------------------------------------------------------------------------
(* Two runs side by side that differ only in the credential: the same tool  *)
(* call goes to two servers configured with different values of apiKey, and *)
(* both get the same downstream answer.                                     *)

\* The credentials the second server can be configured with.
OtherApiKeys == { "", "test-api-key", "other-key" }

\* The downstream answers: an outcome of the SDK client, a rejected fetch, or
\* a response; one response echoes a credential in its body.
EchoText == "Invalid API key: test-api-key"
KeyAnswers ==
  [sdk : {TRUE}, outcome : Settlements]
    \cup { [sdk |-> FALSE, failed |-> TRUE] }
    \cup [sdk : {FALSE}, failed : {FALSE}, status : Statuses,
          text : BodyTexts \cup {EchoText}]

\* A faulty variant of RequestRun: the error for a status outside 200-299
\* names the credential the request was sent with.
RequestRunLeaky(cfg, method, endpoint, body, answer) ==
  [fetch |-> FetchCall(cfg, method, endpoint, body),
   outcome |-> IF answer.failed THEN Rejected(Err("fetch failed"))
               ELSE IF ~ResponseOk(answer.status)
                    THEN Rejected(Err("Flowise API error ("
                           \o IntToStr(answer.status) \o ") [key "
                           \o cfg.apiKey \o "]: " \o answer.text))
                    ELSE ResponseJson(answer.text)]

\* One run of request() in a client made from cfg: the fetch call it makes
\* and how its promise settles for the given answer.
RequestRun(cfg, method, endpoint, body, answer) ==
  [fetch |-> FetchCall(cfg, method, endpoint, body),
   outcome |-> IF answer.failed THEN Rejected(Err("fetch failed"))
               ELSE RequestSettle(answer.status, answer.text)]

\* One run of a tool callback in a server configured with cfg: the fetch
\* call (none for the SDK client) and the response it returns.
ToolRun(cfg, t, p, answer) ==
  LET c == Dispatch(t, p)
  IN IF c.client = "sdk"
     THEN [fetch |-> None, result |-> HandlerSettle(t, p, answer.outcome)]
     ELSE LET r == RequestRun(createFlowiseApiClient(cfg), c.method,
                              c.endpoint, c.body, answer)
          IN [fetch |-> r.fetch, result |-> HandlerSettle(t, p, r.outcome)]

\* The same tools/call request reaches both servers.
KeysInvoke(t, p, k) ==
  /\ pair.pc = "idle"
  /\ k # configObj.apiKey
  /\ pair' = [pc |-> "awaiting", tool |-> t, params |-> p,
              cfgA |-> configObj, cfgB |-> [configObj EXCEPT !.apiKey = k]]
  /\ UNCHANGED <<single, calls>>

\* Both downstream calls get the same answer, and both callbacks return.
KeysAnswer(answer) ==
  /\ pair.pc = "awaiting"
  /\ answer.sdk <=> pair.tool \in PredictionTools
  /\ pair' = [pc |-> "returned", tool |-> pair.tool, params |-> pair.params,
              cfgA |-> pair.cfgA, cfgB |-> pair.cfgB, answer |-> answer,
              runA |-> ToolRun(pair.cfgA, pair.tool, pair.params, answer),
              runB |-> ToolRun(pair.cfgB, pair.tool, pair.params, answer)]
  /\ UNCHANGED <<single, calls>>

NextKeys ==
  \/ \E n \in 1..Len(ToolTable) : \E p \in ParamsOf(ToolTable[n]) :
       \E k \in OtherApiKeys : KeysInvoke(ToolTable[n], p, k)
  \/ \E answer \in KeyAnswers : KeysAnswer(answer)
  \/ PairRelease

SpecKeys == Init /\ [][NextKeys]_vars

-----------------------------------------------------------------------------
(* Properties.                                                              *)

\* The handler of a tool call has returned.
Returned == pc = "returned" /\ tool \in Tools

\* Response r carries the error flag.
HasFlag(r) == "isError" \in DOMAIN r /\ r.isError = TRUE

\* The value of header name in a header list, or "" when it is not set.
HeaderSet(h, name) == \E i \in 1..Len(h) : h[i][1] = name
HeaderValue(h, name) ==
  IF HeaderSet(h, name)
  THEN h[CHOOSE i \in 1..Len(h) : h[i][1] = name][2]
  ELSE ""

C2_ResponseShape ==
  Returned =>
    /\ Len(result.value.content) = 1
    /\ result.value.content[1].type = "text"
    /\ result.value.content[1].text.k = "string"
    /\ outcome.s = "fulfilled" => "isError" \notin DOMAIN result.value
    /\ outcome.s = "rejected" => HasFlag(result.value)

\* C3: a returned response carries the error flag if and only if the
\* downstream call failed; a response without the flag is returned only
\* after the downstream call has completed successfully.
C3_FlagIffFailure ==
  Returned =>
    /\ result.s = "fulfilled"
    /\ HasFlag(result.value) <=> outcome.s = "rejected"
    /\ "isError" \notin DOMAIN result.value <=> outcome.s = "fulfilled"

\* list_chatflows over the transport client has returned the error flag
\* after the backing API answered with a non-success status.
C3_Witness ==
  /\ Returned
  /\ tool = "list_chatflows"
  /\ impl = "real"
  /\ httpResponse # None
  /\ httpResponse.status = 500
  /\ HasFlag(result.value)

\* The prefix the catch block of each tool is said to use.
C4_Prefix(t) ==
  CASE t \in { "create_prediction", "create_prediction_with_history",
               "create_prediction_with_files", "create_prediction_with_lead" }
            -> "Error running chatflow: "
    [] t = "list_chatflows" -> "Error listing chatflows: "
    [] t = "get_chatflow" -> "Error getting chatflow: "
    [] t = "create_chatflow" -> "Error creating chatflow: "
    [] t = "update_chatflow" -> "Error updating chatflow: "
    [] t = "delete_chatflow" -> "Error deleting chatflow: "
    [] t = "list_nodes" -> "Error listing nodes: "
    [] t = "get_nodes_by_category" -> "Error getting nodes by category: "
    [] t = "get_node" -> "Error getting node: "

\* C4: when the downstream call fails, the response text is exactly the
\* fixed prefix of the operation followed by the underlying message:
\* error.message for an Error, String(error) otherwise.
C4_PrefixAndMessage ==
  (Returned /\ outcome.s = "rejected") =>
    result.value.content[1].text =
      Str(C4_Prefix(tool) \o
          (IF outcome.reason.k = "Error" THEN outcome.reason.message
           ELSE String(outcome.reason)))

\* get_node has failed with the Error "Chatflow not found" and returned the
\* text "Error getting node: Chatflow not found".
C4_Witness ==
  /\ Returned
  /\ tool = "get_node"
  /\ outcome = Rejected(Err("Chatflow not found"))
  /\ result.value.content[1].text = Str("Error getting node: Chatflow not found")

\* C5: a dispatcher invocation makes at most one downstream call (one
\* transport request or one createPrediction call), and once its downstream
\* call has failed it makes no further one: a failure is never retried.
C5_OneCallNoRetry ==
  /\ [](tool \in Tools => /\ sdkCalls + apiCalls <= 1
                          /\ fetches <= 1)
  /\ [][(tool \in Tools /\ outcome.s = "rejected" /\ pc' # "idle")
          => /\ sdkCalls' = sdkCalls
             /\ apiCalls' = apiCalls
             /\ fetches' = fetches]_vars

\* A dispatcher has returned a failure after exactly one downstream call.
C5_Witness ==
  /\ Returned
  /\ outcome.s = "rejected"
  /\ sdkCalls + apiCalls = 1

\* C6: each invocation of the transport client's request() issues exactly
\* one network call, whether it ends in success, in a non-success status or
\* in a network failure, and it changes no state of the client.
C6_OneFetchNoMutation ==
  /\ []((impl = "real" /\ pc # "idle") => fetches = 1)
  /\ [](impl # "real" => fetches = 0)
  /\ [][config' = config]_vars

\* A request of the transport client has ended in a network failure after
\* one network call.
C6_Witness ==
  /\ pc = "settled"
  /\ impl = "real"
  /\ outcome = Rejected(Err("fetch failed"))
  /\ fetches = 1

\* C7: the URL the transport client requests is exactly
\* baseUrl + "/api/v1" + endpoint, with the endpoint unaltered, and the HTTP
\* method is the method given.
C7_UrlIsConcatenation ==
  fetchReq # None =>
    /\ fetchReq.url = config.baseUrl \o "/api/v1" \o apiCall.endpoint
    /\ fetchReq.method = apiCall.method
    /\ (config.baseUrl = "http://localhost:3000"
        /\ apiCall.endpoint = "/chatflows/123")
       => fetchReq.url = "http://localhost:3000/api/v1/chatflows/123"
    /\ (config.baseUrl = "http://custom-host:8080/"
        /\ apiCall.endpoint = "nodes")
       => fetchReq.url = "http://custom-host:8080//api/v1nodes"

\* A DELETE request has been made with a base URL that ends in a slash and
\* an endpoint that does not start with one.
C7_Witness ==
  /\ fetchReq # None
  /\ apiCall.method = "DELETE"
  /\ config.baseUrl = "http://custom-host:8080/"
  /\ apiCall.endpoint = "nodes"

\* C8: every outbound request carries Content-Type: application/json; it
\* carries an Authorization header if and only if the configured apiKey is
\* a non-empty string, and the value is then "Bearer " followed by apiKey.
C8_Headers ==
  fetchReq # None =>
    /\ HeaderValue(fetchReq.headers, "Content-Type") = "application/json"
    /\ HeaderSet(fetchReq.headers, "Authorization") <=> config.apiKey # ""
    /\ config.apiKey # "" =>
         HeaderValue(fetchReq.headers, "Authorization")
           = "Bearer " \o config.apiKey
    /\ config.apiKey = "test-api-key" =>
         HeaderValue(fetchReq.headers, "Authorization") = "Bearer test-api-key"

\* A request has been made with an empty apiKey and carries no Authorization
\* header.
C8_Witness ==
  /\ fetchReq # None
  /\ config.apiKey = ""
  /\ ~HeaderSet(fetchReq.headers, "Authorization")

\* C9: when body is omitted no request body is sent; when body is present,
\* for any JSON-serializable value (0, false, the empty string and null
\* included), the request body sent is exactly the JSON serialization of
\* body.
C9_BodyIsSerialization ==
  fetchReq # None =>
    /\ apiCall.body = Undefined => fetchReq.body = Undefined
    /\ apiCall.body # Undefined => fetchReq.body = Str(Ser(apiCall.body, "", ""))

\* C10: whenever the status of the response does not indicate success, the
\* request fails with an error whose message is exactly
\* "Flowise API error (" + status + "): " + the response body text, and it
\* returns no value.
C10_ApiErrorMessage ==
  (httpResponse # None
   /\ (httpResponse.status < 200 \/ httpResponse.status > 299)) =>
    /\ outcome.s = "rejected"
    /\ outcome.reason.k = "Error"
    /\ outcome.reason.message =
         "Flowise API error (" \o IntToStr(httpResponse.status) \o "): "
           \o httpResponse.text
    /\ (httpResponse.status = 404 /\ httpResponse.text = "Chatflow not found")
       => outcome.reason.message = "Flowise API error (404): Chatflow not found"

\* The backing API has answered 404 with the body "Chatflow not found" and
\* the request has failed.
C10_Witness ==
  /\ httpResponse # None
  /\ httpResponse.status = 404
  /\ httpResponse.text = "Chatflow not found"
  /\ outcome.s = "rejected"

\* The response body text is a JSON document of the model.
C11_IsJson(text) ==
  \E v \in JsonDomain : Ser(v, "", "") = text \/ Ser(v, "", "  ") = text

\* C11, as stated: whenever the HTTP status of the response indicates
\* success, the request resolves, and it resolves to the value the response
\* body denotes as JSON.
C11_ResolvesToParsedBody ==
  (httpResponse # None /\ httpResponse.status >= 200
   /\ httpResponse.status <= 299) =>
    /\ outcome.s = "fulfilled"
    /\ \/ Ser(outcome.value, "", "") = httpResponse.text
       \/ Ser(outcome.value, "", "  ") = httpResponse.text

\* C11, amended: whenever the HTTP status of the response indicates success
\* and the response body is a JSON text, the request resolves to the value
\* that text denotes, unchanged and whatever its shape (null, an object, an
\* array); when the body is not a JSON text the request rejects with the
\* parser's error.
C11_ParsedBodyWhenJson ==
  (httpResponse # None /\ httpResponse.status >= 200
   /\ httpResponse.status <= 299) =>
    /\ \A v \in JsonDomain :
         (Ser(v, "", "") = httpResponse.text
          \/ Ser(v, "", "  ") = httpResponse.text) => outcome = Fulfilled(v)
    /\ httpResponse.text = "{\n  \"success\": true\n}"
       => outcome = Fulfilled(Obj(<< <<"success", Bool(TRUE)>> >>))
    /\ httpResponse.text = "null" => outcome = Fulfilled(Null)
    /\ httpResponse.text = "[{\"id\":\"1\",\"name\":\"Flow 1\"}]" =>
         outcome = Fulfilled(Arr(<< Obj(<< <<"id", Str("1")>>,
                                           <<"name", Str("Flow 1")>> >>) >>))
    /\ ~C11_IsJson(httpResponse.text) =>
         /\ outcome.s = "rejected"
         /\ outcome.reason.k = "Error"
         /\ ~StartsWith(outcome.reason.message, "Flowise API error")

\* A 200 response whose body is the JSON text null has resolved the request
\* to null.
C11_Witness ==
  /\ httpResponse # None
  /\ httpResponse.status = 200
  /\ httpResponse.text = "null"
  /\ outcome = Fulfilled(Null)

\* The property names of an object.
KeysOf(o) == { o.p[i][1] : i \in 1..Len(o.p) }

\* C12: for each of the four execution dispatchers the argument passed to
\* createPrediction has streaming false, and apart from streaming it has
\* exactly the caller's properties with the caller's values, also when the
\* caller's input has streaming true.
C12_StreamingForcedOff ==
  (tool \in PredictionTools /\ sdkArg # None) =>
    /\ Get(sdkArg, "streaming") = Bool(FALSE)
    /\ KeysOf(sdkArg) = KeysOf(params) \cup {"streaming"}
    /\ \A key \in KeysOf(params) \ {"streaming"} :
         Get(sdkArg, key) = Get(params, key)
    /\ params = Obj(<< <<"chatflowId", Str("abc")>>, <<"question", Str("hi")>> >>)
       => sdkArg = Obj(<< <<"chatflowId", Str("abc")>>,
                          <<"question", Str("hi")>>,
                          <<"streaming", Bool(FALSE)>> >>)

\* The with-history dispatcher was called with streaming true and a history,
\* and has called createPrediction with streaming false and that history.
C12_Witness ==
  /\ tool = "create_prediction_with_history"
  /\ sdkArg # None
  /\ Get(params, "streaming") = Bool(TRUE)
  /\ Get(sdkArg, "streaming") = Bool(FALSE)
  /\ Get(sdkArg, "history") = Get(params, "history")
  /\ Get(sdkArg, "history") # Undefined

\* C13: each chatflow-management and node-listing dispatcher issues its
\* request with the method and endpoint of the mapping table, the caller's
\* chatflowId is put into the path unaltered, and list_chatflows,
\* get_chatflow, delete_chatflow and list_nodes pass no body.
C13_MethodAndEndpoint ==
  (tool \in {"list_chatflows", "get_chatflow", "create_chatflow",
             "update_chatflow", "delete_chatflow", "list_nodes"}
   /\ apiCall # None) =>
    LET c == <<apiCall.method, apiCall.endpoint>>
        id == Get(params, "chatflowId")
    IN /\ tool = "list_chatflows" => c = <<"GET", "/chatflows">>
       /\ tool = "get_chatflow" => c = <<"GET", "/chatflows/" \o id.s>>
       /\ tool = "create_chatflow" => c = <<"POST", "/chatflows">>
       /\ tool = "update_chatflow" => c = <<"PUT", "/chatflows/" \o id.s>>
       /\ tool = "delete_chatflow" => c = <<"DELETE", "/chatflows/" \o id.s>>
       /\ tool = "list_nodes" => c = <<"GET", "/nodes">>
       /\ (tool = "get_chatflow" /\ id = Str("a b/c"))
          => apiCall.endpoint = "/chatflows/a b/c"
       /\ tool \in {"list_chatflows", "get_chatflow", "delete_chatflow",
                    "list_nodes"}
          => /\ apiCall.body = Undefined
             /\ impl = "real" => fetchReq.body = Undefined
       /\ impl = "real" => fetchReq.method = apiCall.method

\* get_chatflow was called with an id that holds a space and a slash, and
\* has requested GET /chatflows/<that id> without a body.
C13_Witness ==
  /\ tool = "get_chatflow"
  /\ Get(params, "chatflowId") = Str("a b/c")
  /\ impl = "real"
  /\ apiCall # None
  /\ apiCall.method = "GET"
  /\ apiCall.endpoint = "/chatflows/a b/c"
  /\ fetchReq.body = Undefined

\* C14: the payload create_chatflow sends has the caller's name, the JSON
\* string of the caller's flowData, the caller's type or "CHATFLOW" when the
\* caller gave none, and for chatbotConfig the JSON string of the caller's
\* chatbotConfig when one was given and undefined otherwise.
C14_CreatePayload ==
  (tool = "create_chatflow" /\ apiCall # None) =>
    LET b == apiCall.body
        cc == Get(params, "chatbotConfig")
    IN /\ Get(b, "name") = Get(params, "name")
       /\ Get(b, "flowData") = Str(Ser(Get(params, "flowData"), "", ""))
       /\ Get(params, "flowData") =
            Obj(<< <<"nodes", Arr(<<>>)>>, <<"edges", Arr(<<>>)>> >>)
          => Get(b, "flowData") = Str("{\"nodes\":[],\"edges\":[]}")
       /\ Get(b, "type") = IF HasKey(params, "type")
                           THEN Get(params, "type") ELSE Str("CHATFLOW")
       /\ Get(b, "chatbotConfig") = IF HasKey(params, "chatbotConfig")
                                    THEN Str(Ser(cc, "", "")) ELSE Undefined
       /\ cc = Obj(<<>>) => Get(b, "chatbotConfig") = Str("{}")

\* create_chatflow was called without a type and without a chatbotConfig and
\* has sent type "CHATFLOW" and an undefined chatbotConfig.
C14_Witness ==
  /\ tool = "create_chatflow"
  /\ apiCall # None
  /\ ~HasKey(params, "type")
  /\ ~HasKey(params, "chatbotConfig")
  /\ Get(apiCall.body, "type") = Str("CHATFLOW")
  /\ Get(apiCall.body, "chatbotConfig") = Undefined
  /\ Get(apiCall.body, "flowData") = Str("{\"nodes\":[],\"edges\":[]}")

\* C15: every key of the payload update_chatflow sends is one of name,
\* flowData and chatbotConfig that the caller supplied (so never chatflowId),
\* no key has a null or undefined value, a supplied flowData or chatbotConfig
\* is there as its JSON string and a supplied non-empty name unchanged; when
\* the caller supplies none of the three the payload is the empty object and
\* the PUT request is still issued.
C15_UpdatePayload ==
  (tool = "update_chatflow" /\ apiCall # None) =>
    LET b == apiCall.body
        Fields == {"name", "flowData", "chatbotConfig"}
    IN /\ b.k = "object"
       /\ KeysOf(b) \subseteq (Fields \cap KeysOf(params))
       /\ "chatflowId" \notin KeysOf(b)
       /\ \A key \in KeysOf(b) : Get(b, key) \notin {Null, Undefined}
       /\ "name" \in KeysOf(b) => Get(b, "name") = Get(params, "name")
       /\ (HasKey(params, "name") /\ Get(params, "name") # Str(""))
          => "name" \in KeysOf(b)
       /\ \A key \in {"flowData", "chatbotConfig"} :
            HasKey(params, key)
            => /\ key \in KeysOf(b)
               /\ Get(b, key) = Str(Ser(Get(params, key), "", ""))
       /\ (KeysOf(params) \cap Fields = {})
          => /\ b = Obj(<<>>)
             /\ apiCall.method = "PUT"
             /\ apiCalls = 1
             /\ impl = "real" => (fetches = 1 /\ fetchReq.method = "PUT"
                                  /\ fetchReq.body = Str("{}"))

\* update_chatflow was called with a chatflowId only and has issued its PUT
\* request with the empty object as payload.
C15_Witness ==
  /\ tool = "update_chatflow"
  /\ params = Obj(<< <<"chatflowId", Str("123")>> >>)
  /\ impl = "real"
  /\ apiCall # None
  /\ apiCall.method = "PUT"
  /\ apiCall.body = Obj(<<>>)
  /\ fetchReq.body = Str("{}")

\* C16: when the DELETE request of delete_chatflow succeeds, the tool
\* response is the 2-space JSON of {success: true, deleted: <chatflowId>,
\* result: <the value the request resolved to>}; its text contains
\* "success": true and "deleted": "<chatflowId>" and differs from the JSON of
\* the raw value.
C16_DeleteResponse ==
  (Returned /\ tool = "delete_chatflow" /\ outcome.s = "fulfilled") =>
    LET id == Get(params, "chatflowId")
        text == result.value.content[1].text
    IN /\ result.s = "fulfilled"
       /\ ~HasFlag(result.value)
       /\ Len(result.value.content) = 1
       /\ text = JSONstringify2(Obj(<< <<"success", Bool(TRUE)>>,
                                       <<"deleted", id>>,
                                       <<"result", outcome.value>> >>))
       /\ Contains(text.s, "\"success\": true")
       /\ Contains(text.s, "\"deleted\": \"" \o id.s \o "\"")
       /\ text # JSONstringify2(outcome.value)
       /\ (id = Str("123")
           /\ outcome.value = Obj(<< <<"success", Bool(TRUE)>> >>))
          => text.s = "{\n  \"success\": true,\n  \"deleted\": \"123\",\n"
                        \o "  \"result\": {\n    \"success\": true\n  }\n}"

\* delete_chatflow of chatflow 123 has returned after the backing API
\* answered its DELETE request with 200 and {"success":true}.
C16_Witness ==
  /\ Returned
  /\ tool = "delete_chatflow"
  /\ impl = "real"
  /\ Get(params, "chatflowId") = Str("123")
  /\ httpResponse = [status |-> 200, text |-> "{\"success\":true}"]
  /\ Contains(result.value.content[1].text.s, "\"deleted\": \"123\"")

\* C17: get_nodes_by_category requests GET /nodes/category/<category> and
\* get_node requests GET /nodes/<nodeName> with the input percent-encoded:
\* the part after the prefix has no space, no "&" and no "/", so the path
\* has as many segments as the prefix gives it, whatever the input holds.
C17_PercentEncoded ==
  (tool \in {"get_nodes_by_category", "get_node"} /\ apiCall # None) =>
    LET prefix == IF tool = "get_node" THEN "/nodes/" ELSE "/nodes/category/"
        input == IF tool = "get_node" THEN Get(params, "nodeName").s
                 ELSE Get(params, "category").s
        e == apiCall.endpoint
        part == SubSeq(e, Len(prefix) + 1, Len(e))
    IN /\ apiCall.method = "GET"
       /\ apiCall.body = Undefined
       /\ StartsWith(e, prefix)
       /\ part = encodeURIComponent(input)
       /\ \A ch \in {" ", "&", "/"} : ~Contains(part, ch)
       /\ (tool = "get_nodes_by_category" /\ input = "Tools & Utilities")
          => e = "/nodes/category/Tools%20%26%20Utilities"
       /\ (tool = "get_nodes_by_category" /\ input = "Chat Models")
          => e = "/nodes/category/Chat%20Models"
       /\ (tool = "get_node" /\ input = "custom/node")
          => e = "/nodes/custom%2Fnode"
       /\ (tool = "get_node" /\ input = "a&b c/d?e#f")
          => e = "/nodes/a%26b%20c%2Fd%3Fe%23f"
       /\ (tool = "get_node" /\ input = "chatOpenAI") => e = "/nodes/chatOpenAI"
       /\ impl = "real"
          => fetchReq.url = config.baseUrl \o "/api/v1" \o prefix \o part

\* get_node was called with the name "custom/node" and has requested
\* /nodes/custom%2Fnode.
C17_Witness ==
  /\ tool = "get_node"
  /\ Get(params, "nodeName") = Str("custom/node")
  /\ apiCall # None
  /\ apiCall.endpoint = "/nodes/custom%2Fnode"

\* The values a payload string can denote as JSON: the caller's structures,
\* and the strings that are their JSON texts (what a text serialized twice
\* denotes).
C18_Values ==
  LET structures == {FlowData} \cup ChatbotConfigs
  IN structures \cup { Str(Ser(v, "", "")) : v \in structures }

\* JSON.parse over those values; None for any other text.
C18_Parse(text) ==
  IF \E v \in C18_Values : Ser(v, "", "") = text
  THEN CHOOSE v \in C18_Values : Ser(v, "", "") = text
  ELSE None

\* C18: in every payload create_chatflow or update_chatflow hands to the
\* transport client, a flowData or chatbotConfig the caller supplied is
\* present, and a present one is a string, not an object, whose one parse
\* as JSON is the caller's structure.
C18_SerializedOnce ==
  (tool \in {"create_chatflow", "update_chatflow"} /\ apiCall # None) =>
    \A key \in {"flowData", "chatbotConfig"} :
      LET v == Get(apiCall.body, key)
      IN /\ HasKey(params, key) => v # Undefined
         /\ v # Undefined
            => /\ v.k = "string"
               /\ C18_Parse(v.s) = Get(params, key)
               /\ C18_Parse(v.s).k = "object"

\* create_chatflow was called with a chatbotConfig whose text holds quotes,
\* and its payload carries that chatbotConfig as one JSON string.
C18_Witness ==
  /\ tool = "create_chatflow"
  /\ apiCall # None
  /\ Get(params, "chatbotConfig") =
       Obj(<< <<"welcomeMessage", Str("Say \"hi\"")>> >>)
  /\ Get(apiCall.body, "chatbotConfig") =
       Str("{\"welcomeMessage\":\"Say \\\"hi\\\"\"}")
  /\ Get(apiCall.body, "flowData") = Str("{\"nodes\":[],\"edges\":[]}")

\* C20: the client's baseUrl and apiKey are those of the configuration read
\* from the environment at start-up and never change afterwards, and every
\* request is made with them: its URL starts with that baseUrl and its
\* Authorization header is "Bearer " + that apiKey (no header for an empty
\* apiKey), also after the environment or the configuration object has been
\* changed.
C20_ConfigCaptured ==
  /\ config = getDefaultConfig(env)
  /\ [][config' = config]_vars
  /\ [][fetches' = fetches + 1 =>
          /\ fetchReq'.url = config.baseUrl \o "/api/v1" \o apiCall'.endpoint
          /\ HeaderValue(fetchReq'.headers, "Authorization") =
               (IF config.apiKey = "" THEN "" ELSE "Bearer " \o config.apiKey)]_vars
  /\ [](fetchReq # None =>
          /\ fetchReq.url = config.baseUrl \o "/api/v1" \o apiCall.endpoint
          /\ HeaderSet(fetchReq.headers, "Authorization") = (config.apiKey # "")
          /\ HeaderValue(fetchReq.headers, "Authorization") =
               (IF config.apiKey = "" THEN "" ELSE "Bearer " \o config.apiKey))

\* A request is in flight with the captured baseUrl and apiKey while the
\* environment and both fields of the configuration object say otherwise.
C20_Witness ==
  /\ pc = "awaiting"
  /\ impl = "real"
  /\ fetchReq # None
  /\ configObj.baseUrl # config.baseUrl
  /\ configObj.apiKey # config.apiKey
  /\ getDefaultConfig(env).baseUrl # config.baseUrl
  /\ getDefaultConfig(env).apiKey # config.apiKey
  /\ StartsWith(fetchReq.url, config.baseUrl \o "/api/v1")

\* Call record c is the one a call of its tool with its parameters has when
\* it runs alone: its request follows from its parameters and the
\* configuration, its response from its downstream outcome.
C19_AsAlone(c) ==
  LET d == Dispatch(c.tool, c.params)
  IN /\ c.sdkArg = (IF d.client = "sdk" THEN d.arg ELSE None)
     /\ d.client = "api"
        => /\ c.apiCall = [method |-> d.method, endpoint |-> d.endpoint,
                           body |-> d.body]
           /\ c.fetchReq = FetchCall(config, d.method, d.endpoint, d.body)
     /\ c.pc = "returned" => c.result = HandlerSettle(c.tool, c.params, c.outcome)
     /\ c.pc # "returned" => c.result = Pending

\* C19: with several tool calls in flight in any interleaving, a call's
\* downstream request is the one its own parameters and the configuration
\* give, and its response the one its own downstream outcome gives; two
\* calls with the same tool and parameters make the same request, and with
\* the same outcome too they return the same response, whatever else is in
\* flight and in whatever order the calls settle; a step of one call
\* changes no other call.
C19_Independent ==
  /\ [](\A s \in Slots : calls[s].pc # "idle" => C19_AsAlone(calls[s]))
  /\ [](\A s1, s2 \in Slots :
          (calls[s1].pc # "idle" /\ calls[s2].pc # "idle"
           /\ calls[s1].tool = calls[s2].tool
           /\ calls[s1].params = calls[s2].params)
          => /\ calls[s1].sdkArg = calls[s2].sdkArg
             /\ calls[s1].apiCall = calls[s2].apiCall
             /\ calls[s1].fetchReq = calls[s2].fetchReq
             /\ (calls[s1].pc = "returned" /\ calls[s2].pc = "returned"
                 /\ calls[s1].outcome = calls[s2].outcome)
                => calls[s1].result = calls[s2].result)
  /\ [][\A s1, s2 \in Slots :
          (calls'[s1] # calls[s1] /\ calls'[s2] # calls[s2]) => s1 = s2]_vars
  /\ [][\A s \in Slots :
          (calls[s].pc # "idle" /\ calls'[s].pc # "idle")
          => /\ calls'[s].sdkArg = calls[s].sdkArg
             /\ calls'[s].apiCall = calls[s].apiCall
             /\ calls'[s].fetchReq = calls[s].fetchReq
             /\ calls[s].pc \in {"settled", "returned"}
                => calls'[s].outcome = calls[s].outcome
             /\ calls[s].pc = "returned" => calls'[s] = calls[s]]_vars

\* Two updates of the same chatflow with different fields are in flight; the
\* one invoked with flowData has failed and returned while the one invoked
\* with a name still waits, each with its own payload.
C19_Witness ==
  \E s1, s2 \in Slots :
    /\ calls[s1].tool = "update_chatflow"
    /\ calls[s2].tool = "update_chatflow"
    /\ calls[s1].pc = "returned"
    /\ calls[s2].pc = "awaiting"
    /\ KeysOf(calls[s1].apiCall.body) = {"flowData"}
    /\ KeysOf(calls[s2].apiCall.body) = {"name"}
    /\ HasFlag(calls[s1].result.value)

\* C21, as stated: the configuration takes each value from its environment
\* input, unchanged whenever the input is set, and falls back to
\* http://localhost:3000 and to the empty string when the input is not set.
C21_SetValueUnchanged ==
  /\ configObj.baseUrl = (IF env.FLOWISE_BASE_URL = Undefined
                          THEN "http://localhost:3000"
                          ELSE env.FLOWISE_BASE_URL.s)
  /\ configObj.apiKey = (IF env.FLOWISE_API_KEY = Undefined
                         THEN "" ELSE env.FLOWISE_API_KEY.s)

\* C21, amended: the configuration takes each value from its environment
\* input, unchanged, when the input is set to a non-empty string; the base
\* URL falls back to http://localhost:3000 and the credential to the empty
\* string when the input is not set or is set to the empty string.
C21_DefaultConfig ==
  /\ configObj.baseUrl = (IF env.FLOWISE_BASE_URL \in {Undefined, Str("")}
                          THEN "http://localhost:3000"
                          ELSE env.FLOWISE_BASE_URL.s)
  /\ configObj.apiKey = (IF env.FLOWISE_API_KEY \in {Undefined, Str("")}
                         THEN "" ELSE env.FLOWISE_API_KEY.s)
  /\ config = configObj

\* The process runs with FLOWISE_BASE_URL set to the empty string and
\* FLOWISE_API_KEY set, and has a request in flight to localhost.
C21_Witness ==
  /\ env.FLOWISE_BASE_URL = Str("")
  /\ env.FLOWISE_API_KEY = Str("test-api-key")
  /\ configObj = [baseUrl |-> "http://localhost:3000", apiKey |-> "test-api-key"]
  /\ fetchReq # None
  /\ StartsWith(fetchReq.url, "http://localhost:3000/api/v1")

\* The tool names of the catalog.
C22_Catalog ==
  { "create_prediction", "create_prediction_with_history",
    "create_prediction_with_files", "create_prediction_with_lead",
    "list_chatflows", "get_chatflow", "create_chatflow", "update_chatflow",
    "delete_chatflow", "list_nodes", "get_nodes_by_category", "get_node" }

\* The method and the start of the endpoint of each transport-backed
\* operation.
C22_Operation(t) ==
  CASE t = "list_chatflows" -> <<"GET", "/chatflows">>
    [] t = "get_chatflow" -> <<"GET", "/chatflows/">>
    [] t = "create_chatflow" -> <<"POST", "/chatflows">>
    [] t = "update_chatflow" -> <<"PUT", "/chatflows/">>
    [] t = "delete_chatflow" -> <<"DELETE", "/chatflows/">>
    [] t = "list_nodes" -> <<"GET", "/nodes">>
    [] t = "get_nodes_by_category" -> <<"GET", "/nodes/category/">>
    [] t = "get_node" -> <<"GET", "/nodes/">>

\* C22: the tool table registers exactly the twelve names of the catalog,
\* each once; a call of one of the four create_prediction tools makes one
\* call of the prediction client and none of the transport client, and a
\* call of one of the eight other tools makes one request of the transport
\* client, that of its own operation, and no call of the prediction client.
C22_ToolTable ==
  /\ Len(ToolTable) = 12
  /\ \A m, n \in 1..Len(ToolTable) : ToolTable[m] = ToolTable[n] => m = n
  /\ { ToolTable[n] : n \in 1..Len(ToolTable) } = C22_Catalog
  /\ (pc # "idle" /\ tool # "request") =>
       /\ tool \in C22_Catalog
       /\ StartsWith(tool, "create_prediction")
          => /\ sdkCalls = 1 /\ sdkArg # None
             /\ apiCalls = 0 /\ apiCall = None
             /\ fetches = 0 /\ fetchReq = None
       /\ ~StartsWith(tool, "create_prediction")
          => /\ sdkCalls = 0 /\ sdkArg = None
             /\ apiCalls = 1 /\ apiCall # None
             /\ apiCall.method = C22_Operation(tool)[1]
             /\ StartsWith(apiCall.endpoint, C22_Operation(tool)[2])
             /\ tool \in {"list_chatflows", "create_chatflow", "list_nodes"}
                => apiCall.endpoint = C22_Operation(tool)[2]
             /\ tool \in {"get_node", "get_chatflow"}
                => Len(apiCall.endpoint) > Len(C22_Operation(tool)[2])

\* get_node has been called and has returned after one request of the
\* transport client to /nodes/chatOpenAI and no call of the prediction
\* client.
C22_Witness ==
  /\ pc = "returned"
  /\ tool = "get_node"
  /\ sdkCalls = 0
  /\ apiCalls = 1
  /\ apiCall.endpoint = "/nodes/chatOpenAI"

\* C23: for every tool but delete_chatflow, when the downstream call
\* resolves to r the handler returns one text item and no error flag, and
\* the text is JSON.stringify(r, null, 2): the two-space indented JSON of r
\* and nothing else.
C23_SuccessText ==
  (Returned /\ tool # "delete_chatflow" /\ outcome.s = "fulfilled") =>
    /\ result.s = "fulfilled"
    /\ DOMAIN result.value = {"content"}
    /\ Len(result.value.content) = 1
    /\ result.value.content[1].type = "text"
    /\ result.value.content[1].text = JSONstringify2(outcome.value)
    /\ outcome.value = Arr(<< Obj(<< <<"id", Str("1")>>,
                                     <<"name", Str("Flow 1")>> >>) >>)
       => result.value.content[1].text =
            Str("[\n  {\n    \"id\": \"1\",\n    \"name\": \"Flow 1\"\n  }\n]")
    /\ outcome.value = Obj(<< <<"text", Str("hello")>> >>)
       => result.value.content[1].text = Str("{\n  \"text\": \"hello\"\n}")
    /\ outcome.value = Null => result.value.content[1].text = Str("null")

\* list_chatflows has returned after the backing API answered 200 with
\* [{"id":"1","name":"Flow 1"}], and its text is that array indented.
C23_Witness ==
  /\ Returned
  /\ tool = "list_chatflows"
  /\ impl = "real"
  /\ httpResponse = [status |-> 200, text |-> "[{\"id\":\"1\",\"name\":\"Flow 1\"}]"]
  /\ result.value.content[1].text =
       Str("[\n  {\n    \"id\": \"1\",\n    \"name\": \"Flow 1\"\n  }\n]")

\* C24: the payload of update_chatflow has the key name if and only if the
\* caller supplied a name that is not the empty string, and then with that
\* name; with an empty name the payload has exactly the keys it has when no
\* name is supplied, so no update sends the empty string as name.
C24_EmptyNameOmitted ==
  (tool = "update_chatflow" /\ apiCall # None) =>
    LET b == apiCall.body
        nm == Get(params, "name")
    IN /\ ("name" \in KeysOf(b)) <=> (HasKey(params, "name") /\ nm # Str(""))
       /\ "name" \in KeysOf(b) => Get(b, "name") = nm
       /\ Get(b, "name") # Str("")
       /\ nm \in {Undefined, Str("")}
          => KeysOf(b) = KeysOf(params) \cap {"flowData", "chatbotConfig"}
       /\ (nm = Str("") /\ KeysOf(params) = {"chatflowId", "name"})
          => /\ b = Obj(<<>>)
             /\ impl = "real" => fetchReq.body = Str("{}")

\* update_chatflow was called with the empty string as name and nothing
\* else, and has sent the empty object.
C24_Witness ==
  /\ tool = "update_chatflow"
  /\ params = Obj(<< <<"chatflowId", Str("123")>>, <<"name", Str("")>> >>)
  /\ impl = "real"
  /\ apiCall # None
  /\ apiCall.body = Obj(<<>>)
  /\ fetchReq.body = Str("{}")
  /\ pc = "returned"

\* C25: when a transport-backed tool runs over the real transport client and
\* the backing API answers with a status outside 200-299 and body text t,
\* the tool response has isError true and its one text is the prefix of the
\* operation, then "Flowise API error (", the status, "): " and t.
C25_ApiErrorEndToEnd ==
  (Returned /\ impl = "real" /\ httpResponse # None
   /\ (httpResponse.status < 200 \/ httpResponse.status > 299)) =>
    /\ result.s = "fulfilled"
    /\ HasFlag(result.value)
    /\ Len(result.value.content) = 1
    /\ result.value.content[1].text =
         Str(C4_Prefix(tool) \o "Flowise API error ("
               \o IntToStr(httpResponse.status) \o "): " \o httpResponse.text)
    /\ (tool = "get_chatflow" /\ httpResponse.status = 404
        /\ httpResponse.text = "Chatflow not found")
       => result.value.content[1].text =
            Str("Error getting chatflow: Flowise API error (404): Chatflow not found")
    /\ (tool = "list_nodes" /\ httpResponse.status = 500
        /\ httpResponse.text = "")
       => result.value.content[1].text =
            Str("Error listing nodes: Flowise API error (500): ")

\* get_chatflow has returned after the backing API answered 404 with the
\* body "Chatflow not found".
C25_Witness ==
  /\ Returned
  /\ tool = "get_chatflow"
  /\ impl = "real"
  /\ httpResponse = [status |-> 404, text |-> "Chatflow not found"]
  /\ HasFlag(result.value)
  /\ result.value.content[1].text =
       Str("Error getting chatflow: Flowise API error (404): Chatflow not found")

\* The text of the tool response the handler has returned.
ResultText == result.value.content[1].text

\* C26, as stated: a response of delete_chatflow whose text contains
\* "success": true is returned only when the DELETE request has completed
\* successfully, and when the DELETE request has failed the response has the
\* error flag and its text contains neither "success": true nor a deleted
\* field.
C26_NoSuccessTextOnFailure ==
  (Returned /\ tool = "delete_chatflow") =>
    /\ Contains(ResultText.s, "\"success\": true") => outcome.s = "fulfilled"
    /\ outcome.s = "rejected"
       => /\ HasFlag(result.value)
          /\ ~Contains(ResultText.s, "\"success\": true")
          /\ ~Contains(ResultText.s, "\"deleted\"")

\* The message of the failure the handler has caught.
C26_Message ==
  IF outcome.reason.k = "Error" THEN outcome.reason.message
  ELSE String(outcome.reason)

\* C26, amended: delete_chatflow returns a response without the error flag
\* (the one it builds with success: true and deleted) only in a step taken
\* after the DELETE request has completed successfully, over the real
\* client after one fetch answered with a status in 200-299; when the
\* DELETE request has failed the response has the error flag and its text
\* is "Error deleting chatflow: " and the failure's message, so that it
\* contains "success": true or a deleted field only where that message (an
\* echoed response body, say) contains it.
C26_NoUnacknowledgedDeletion ==
  /\ []((Returned /\ tool = "delete_chatflow") =>
          /\ ~HasFlag(result.value)
             => /\ outcome.s = "fulfilled"
                /\ impl = "real"
                   => /\ fetches = 1
                      /\ fetchReq.method = "DELETE"
                      /\ httpResponse # None
                      /\ httpResponse.status >= 200
                      /\ httpResponse.status <= 299
          /\ outcome.s = "rejected"
             => /\ HasFlag(result.value)
                /\ ResultText = Str("Error deleting chatflow: " \o C26_Message)
                /\ \A part \in {"\"success\": true", "\"deleted\""} :
                     Contains(ResultText.s, part) => Contains(C26_Message, part))
  /\ [][(tool' = "delete_chatflow" /\ pc' = "returned" /\ pc # "returned"
         /\ ~HasFlag(result'.value))
        => (pc = "settled" /\ outcome.s = "fulfilled" /\ result = Pending)]_vars

\* delete_chatflow has returned an error response after the backing API
\* answered its DELETE request with 404.
C26_Witness ==
  /\ Returned
  /\ tool = "delete_chatflow"
  /\ impl = "real"
  /\ httpResponse # None
  /\ httpResponse.status = 404
  /\ HasFlag(result.value)
  /\ ~Contains(ResultText.s, "\"deleted\"")

\* C27: when create_chatflow or update_chatflow runs over the real transport
\* client and the caller gave no chatbotConfig, the body of the fetch call is
\* a JSON text in which chatbotConfig does not occur at all, nor the word
\* undefined; an update with no optional field sends the body "{}".
C27_WireBody ==
  (tool \in {"create_chatflow", "update_chatflow"} /\ impl = "real"
   /\ fetchReq # None /\ ~HasKey(params, "chatbotConfig")) =>
    /\ fetchReq.body.k = "string"
    /\ ~Contains(fetchReq.body.s, "chatbotConfig")
    /\ ~Contains(fetchReq.body.s, "undefined")
    /\ ~Contains(fetchReq.body.s, "null")
    /\ (tool = "create_chatflow" /\ ~HasKey(params, "type"))
       => fetchReq.body.s =
            "{\"name\":\"New Flow\","
              \o "\"flowData\":\"{\\\"nodes\\\":[],\\\"edges\\\":[]}\","
              \o "\"type\":\"CHATFLOW\"}"
    /\ (tool = "update_chatflow"
        /\ KeysOf(params) \cap {"name", "flowData", "chatbotConfig"} = {})
       => /\ fetchReq.body = Str("{}")
          /\ fetchReq.method = "PUT"

\* create_chatflow was called without a chatbotConfig over the real client
\* and its fetch call carries a body with the three other fields.
C27_Witness ==
  /\ tool = "create_chatflow"
  /\ impl = "real"
  /\ fetchReq # None
  /\ ~HasKey(params, "chatbotConfig")
  /\ Get(apiCall.body, "chatbotConfig") = Undefined
  /\ HasKey(apiCall.body, "chatbotConfig")
  /\ Contains(fetchReq.body.s, "\"type\":\"CHATFLOW\"")
  /\ ~Contains(fetchReq.body.s, "chatbotConfig")

\* C28: when the backing API answers with a status in 200-299 and a body
\* that is not a JSON text, the request fails with the parser's error and
\* the handler returns an error response: the error flag, and as text its
\* operation prefix followed by that error's message; delete_chatflow then
\* reports "Error deleting chatflow: ..." and no deletion.
C28_UnparseableSuccess ==
  (Returned /\ impl = "real" /\ httpResponse # None
   /\ httpResponse.status >= 200 /\ httpResponse.status <= 299
   /\ ~C11_IsJson(httpResponse.text)) =>
    /\ outcome.s = "rejected"
    /\ outcome.reason.k = "Error"
    /\ ~StartsWith(outcome.reason.message, "Flowise API error")
    /\ result.s = "fulfilled"
    /\ HasFlag(result.value)
    /\ ResultText = Str(C4_Prefix(tool) \o outcome.reason.message)
    /\ tool = "delete_chatflow"
       => /\ StartsWith(ResultText.s, "Error deleting chatflow: ")
          /\ ~Contains(ResultText.s, "\"deleted\"")
          /\ ~Contains(ResultText.s, "\"success\": true")

\* delete_chatflow has returned an error response after the backing API
\* answered its DELETE request with 204 and an empty body.
C28_Witness ==
  /\ Returned
  /\ tool = "delete_chatflow"
  /\ impl = "real"
  /\ httpResponse = [status |-> 204, text |-> ""]
  /\ HasFlag(result.value)
  /\ StartsWith(ResultText.s, "Error deleting chatflow: ")

-----------------------------------------------------------------------------
(* C29: the two entry points are equivalent, tool by tool.                  *)

\* The payload fields of a downstream call that have a defined value.
C29_DefinedFields(o) ==
  IF o.k = "object"
  THEN { <<o.p[i][1], o.p[i][2]>> : i \in { j \in 1..Len(o.p) : o.p[j][2] # Undefined } }
  ELSE { <<"", o>> }

\* Two downstream calls are the same call: same client, and for the SDK the
\* same defined fields of the argument, for the REST API the same method,
\* endpoint and defined fields of the payload.
C29_SameCall(x, y) ==
  /\ x.client = y.client
  /\ IF x.client = "sdk"
     THEN C29_DefinedFields(x.arg) = C29_DefinedFields(y.arg)
     ELSE /\ x.method = y.method
          /\ x.endpoint = y.endpoint
          /\ C29_DefinedFields(x.body) = C29_DefinedFields(y.body)

\* C29: for every tool, every parameter set the schema lets through and every
\* downstream outcome, the inline callback of index.ts and the extracted
\* handler make the same downstream call (same method, endpoint and defined
\* payload fields, hence the same fetch call) and return the same tool
\* response.
C29_EntryPointsAgree ==
  /\ pair.pc # "idle" =>
       /\ C29_SameCall(pair.extracted, pair.inline)
       /\ pair.extractedFetch = pair.inlineFetch
  /\ pair.pc = "returned" => pair.extractedResult = pair.inlineResult

\* A prediction call without chatId has returned an error response on both
\* sides; the two SDK arguments are not the same object (the inline one has
\* chatId: undefined), and the caller's streaming: true was dropped.
C29_Witness ==
  /\ pair.pc = "returned"
  /\ pair.tool = "create_prediction"
  /\ HasKey(pair.args, "streaming")
  /\ ~HasKey(pair.params, "streaming")
  /\ pair.extracted # pair.inline
  /\ HasKey(pair.inline.arg, "chatId")
  /\ ~HasKey(pair.extracted.arg, "chatId")
  /\ pair.answer.s = "rejected"
  /\ "isError" \in DOMAIN pair.inlineResult.value

-----------------------------------------------------------------------------
(* C30: the credential does not flow into the tool response.                *)

\* The text of a tool response, "" when the response has no text.
C30_Text(r) ==
  IF r.value.content[1].text.k = "string" THEN r.value.content[1].text.s ELSE ""

\* The texts the two runs were given: the downstream answer and the tool
\* arguments.
C30_Given ==
  { JSONstringify(pair.params).s }
    \cup (IF pair.answer.sdk
          THEN { IF pair.answer.outcome.s = "fulfilled"
                 THEN (IF JSONstringify(pair.answer.outcome.value).k = "string"
                       THEN JSONstringify(pair.answer.outcome.value).s ELSE "")
                 ELSE ErrorMessage(pair.answer.outcome.reason) }
          ELSE IF pair.answer.failed THEN {} ELSE { pair.answer.text })

\* C30, as stated: two runs that differ only in apiKey, given the same tool
\* call and the same downstream answer, return identical tool responses, and
\* a (non-empty) apiKey value never appears in the text of a response.
C30_KeyNeverInText ==
  pair.pc = "returned" =>
    /\ pair.runA.result = pair.runB.result
    /\ \A k \in {pair.cfgA.apiKey, pair.cfgB.apiKey} :
         k # "" => /\ ~Contains(C30_Text(pair.runA.result), k)
                   /\ ~Contains(C30_Text(pair.runB.result), k)

\* C30, amended: two runs that differ only in apiKey, given the same tool
\* call and the same downstream answer, return identical tool responses;
\* the credential goes into the Authorization header of the fetch call only,
\* and a (non-empty) apiKey value appears in the text of a response only
\* where the downstream answer or the tool arguments already contain it.
C30_KeyDoesNotFlow ==
  pair.pc = "returned" =>
    /\ pair.runA.result = pair.runB.result
    /\ pair.runA.result.s = "fulfilled"
    /\ \A k \in {pair.cfgA.apiKey, pair.cfgB.apiKey} :
         (k # "" /\ Contains(C30_Text(pair.runA.result), k))
           => \E g \in C30_Given : Contains(g, k)
    /\ pair.runA.fetch # None =>
         /\ pair.runA.fetch # pair.runB.fetch
         /\ [pair.runA.fetch EXCEPT !.headers = <<>>]
              = [pair.runB.fetch EXCEPT !.headers = <<>>]

\* get_chatflow has returned in two runs, one with the credential
\* test-api-key and one with none; the fetch calls differ in the
\* Authorization header, the backing API answered 404 to both, and both runs
\* returned the same error response.
C30_Witness ==
  /\ pair.pc = "returned"
  /\ "cfgA" \in DOMAIN pair
  /\ pair.tool = "get_chatflow"
  /\ {pair.cfgA.apiKey, pair.cfgB.apiKey} = {"", "test-api-key"}
  /\ ~pair.answer.sdk /\ ~pair.answer.failed
  /\ pair.answer.status = 404
  /\ pair.answer.text = "Chatflow not found"
  /\ pair.runA.fetch.headers # pair.runB.fetch.headers
  /\ pair.runA.result = pair.runB.result
  /\ "isError" \in DOMAIN pair.runA.result.value

====
